---- MODULE Spec2Model ----
(***************************************************************************)
(* Onboarding / OAuth-state / mobile-verification core of the cloud API.   *)
(*                                                                         *)
(* The persistent store is the state: the User, EmailVerification,         *)
(* MobileVerification, OAuthState and OAuthProvider tables.  Handlers that *)
(* the code runs between two awaits of a concurrency-sensitive operation   *)
(* are split at the database calls (each database call is one atomic       *)
(* step); the other handlers are one action each.                          *)
(*                                                                         *)
(* The specifications share the variables:                                 *)
(*   SpecConsume  OAuthStateService, callers interleaved per database call *)
(*   SpecMobile   MobileVerificationService, one webhook delivery          *)
(*   SpecWebhooks two webhook deliveries interleaved per database call     *)
(*   Spec         OnboardingService.register and EmailVerificationService, *)
(*                one action per handler                                   *)
(*   SpecOAuth    OAuthService, one action per handler                     *)
(*   SpecResume   the same next to OnboardingService.register              *)
(***************************************************************************)
EXTENDS Integers, Sequences, FiniteSets, TLC

VARIABLES
  now,          \* current time in minutes (new Date())
  users,        \* User table: set of rows
  emailVerifs,  \* EmailVerification table: set of rows
  mobileVerifs, \* MobileVerification table: set of rows
  oauthStates,  \* OAuthState table: set of rows
  oauthLinks,   \* OAuthProvider table: set of rows
  sessions,     \* Session table: set of rows
  issued,       \* per table with numbered ids: number of rows created so far
  call,         \* per caller: position inside a handler split at its awaits
  res,          \* per caller: outcome of validateAndConsumeState, response of handleWebhook
  returned,     \* history: state token -> number of calls that returned its payload
  minted,       \* history: every OAuthState row as generateState stored it
  claimed,      \* history: the verifyFromWebhook calls that returned true
  last          \* outcome of the handler the last step ran as one action, if it did

vars == <<now, users, emailVerifs, mobileVerifs, oauthStates, oauthLinks, sessions,
          issued, call, res, returned, minted, claimed, last>>

-----------------------------------------------------------------------------
(* Bounds of the model *)

MaxTicks == 3
MaxStates == 1
MaxMobiles == 2
MaxRows == 2
MaxTokens == 4

TickSteps == {5}
Callers == {"c1", "c2"}

(* Program constants *)

STATE_EXPIRY_MINUTES == 10
OTP_EXPIRY_MINUTES == 5
MAX_ATTEMPTS == 3
verificationExpiryMinutes == 10
maxAttempts == 5
SigBytes == 32
ACCESS_EXPIRY_MINUTES == 15
REFRESH_EXPIRY_MINUTES == 43200

None == "none"
Providers == {"GOOGLE", "MICROSOFT"}
UserIds == <<"u1", "u2", "u3">>

Idle == [pc |-> "idle"]
NoRes == [op |-> "none", outcome |-> "none"]

-----------------------------------------------------------------------------
(* Time: every handler reads new Date(); time passes between handlers and   *)
(* between the database calls of one handler.                              *)

Tick ==
  /\ \E d \in TickSteps :
       /\ now + d <= MaxTicks * d
       /\ now' = now + d
  /\ UNCHANGED <<sessions, users, emailVerifs, mobileVerifs, oauthStates, oauthLinks,
                 issued, call, res, returned, minted, claimed>>
  /\ last' = NoRes

-----------------------------------------------------------------------------
(* PrimaryBaseRepository.delete(id) as the services use it: Prisma's       *)
(* model.delete({where: {id}}), which removes the row and rejects          *)
(* (record not found) when no row has the id.                              *)

DeleteOutcomeSilent(rows, id) == "deleted"

DeleteOutcome(rows, id) ==
  IF \E r \in rows : r.id = id THEN "deleted" ELSE "RecordNotFound"

KeepRows(rows, id) == rows

RemoveRow(rows, id) == {r \in rows : r.id # id}

-----------------------------------------------------------------------------
(* OAuthStateService *)

\* crypto.createHmac('sha256', hmacSecret).update(t).digest('hex')
Hmac(t) == [len |-> SigBytes, mac |-> <<"hmac", t>>]

\* signStateToken: `${stateToken}.${signature}`, kept as its '.'-separated parts
signStateToken(t) == <<t, Hmac(t)>>

\* crypto.timingSafeEqual: throws a RangeError on buffers of different length
timingSafeEqual(a, b) ==
  IF a.len # b.len THEN "RangeError" ELSE IF a.mac = b.mac THEN "true" ELSE "false"

\* verifyStateToken: "true", "false", or "RangeError" (thrown)
verifyStateToken(parts) ==
  IF Len(parts) # 2 THEN "false" ELSE timingSafeEqual(parts[2], Hmac(parts[1]))

\* stateRepository.findByToken
findByToken(token) == {r \in oauthStates : r.stateToken = token}

\* Tokens a caller may present: every signed token the service issues, and
\* a token with a forged signature, with a truncated signature, and
\* without a signature part.
PresentedTokens ==
  {signStateToken(n) : n \in 1..MaxStates} \cup
  {<<1, [len |-> SigBytes, mac |-> <<"forged", 1>>]>>,
   <<1, [len |-> SigBytes - 1, mac |-> <<"forged", 1>>]>>,
   <<1>>}

\* generateState(provider, userId, codeVerifier)
generateState(provider, userId) ==
  /\ issued.states < MaxStates
  /\ LET n == issued.states + 1
         row == [id |-> n, stateToken |-> signStateToken(n), provider |-> provider,
                 userId |-> userId, codeVerifier |-> <<"verifier", n>>,
                 expiresAt |-> now + STATE_EXPIRY_MINUTES]
     IN
       /\ oauthStates' = oauthStates \cup {row}
       /\ minted' = minted \cup {row}
       /\ issued' = [issued EXCEPT !.states = n]

GenerateState ==
  /\ \E provider \in Providers, userId \in {None, UserIds[1]} : generateState(provider, userId)
  /\ last' = NoRes
  /\ UNCHANGED <<sessions, now, users, emailVerifs, mobileVerifs, oauthLinks,
                 call, res, returned, claimed>>

\* The payload validateAndConsumeState returns for a row
StateData(r) ==
  [provider |-> r.provider, userId |-> r.userId, codeVerifier |-> r.codeVerifier]

\* validateAndConsumeState up to its first delete: signature check, lookup,
\* expiry check.  late records whether the token's payload had already been
\* returned when this call began.
ConsumeLookup(p) ==
  /\ call[p] = Idle
  /\ \E token \in PresentedTokens :
       LET sig == verifyStateToken(token)
           found == findByToken(token)
           begun == [op |-> "validateAndConsumeState", token |-> token,
                     late |-> (returned[token[1]] > 0), outcome |-> "pending",
                     data |-> None]
       IN
       IF sig # "true" THEN
         /\ res' = [res EXCEPT ![p] = [begun EXCEPT !.outcome =
                      IF sig = "false" THEN "Unauthorized" ELSE "RangeError"]]
         /\ call' = call
       ELSE IF found = {} THEN
         /\ res' = [res EXCEPT ![p] = [begun EXCEPT !.outcome = "Unauthorized"]]
         /\ call' = call
       ELSE
         \E r \in found :
           /\ res' = [res EXCEPT ![p] = begun]
           /\ call' = [call EXCEPT ![p] =
                [pc |-> IF now > r.expiresAt THEN "expired" ELSE "found", rec |-> r]]
  /\ UNCHANGED <<sessions, now, users, emailVerifs, mobileVerifs, oauthStates, oauthLinks,
                 issued, returned, minted, claimed>>
  /\ last' = NoRes

\* validateAndConsumeState from its delete on: stateRepository.delete(id),
\* then the throw of the expired branch or the return of the payload.
ConsumeDelete(p) ==
  /\ call[p].pc \in {"found", "expired"}
  /\ LET r == call[p].rec
         del == DeleteOutcome(oauthStates, r.id)
     IN
       /\ oauthStates' = RemoveRow(oauthStates, r.id)
       /\ call' = [call EXCEPT ![p] = Idle]
       /\ IF del # "deleted" THEN
            /\ res' = [res EXCEPT ![p].outcome = del]
            /\ returned' = returned
          ELSE IF call[p].pc = "expired" THEN
            /\ res' = [res EXCEPT ![p].outcome = "Unauthorized"]
            /\ returned' = returned
          ELSE
            /\ res' = [res EXCEPT ![p].outcome = "ok", ![p].data = StateData(r)]
            /\ returned' = [returned EXCEPT ![r.stateToken[1]] = @ + 1]
  /\ UNCHANGED <<sessions, now, users, emailVerifs, mobileVerifs, oauthLinks, issued, minted, claimed>>
  /\ last' = NoRes

\* cleanupExpiredStates: stateRepository.deleteExpired()
cleanupExpiredStates ==
  /\ \E r \in oauthStates : r.expiresAt < now
  /\ oauthStates' = {r \in oauthStates : ~(r.expiresAt < now)}
  /\ UNCHANGED <<sessions, now, users, emailVerifs, mobileVerifs, oauthLinks,
                 issued, call, res, returned, minted, claimed>>
  /\ last' = NoRes

-----------------------------------------------------------------------------
(* The store before any request: empty tables, idle callers. *)

InitEmpty ==
  /\ now = 0
  /\ users = {}
  /\ emailVerifs = {}
  /\ mobileVerifs = {}
  /\ oauthStates = {}
  /\ oauthLinks = {}
  /\ issued = [states |-> 0, users |-> 0, mobiles |-> 0, tokens |-> 0]
  /\ sessions = {}
  /\ call = [p \in Callers |-> Idle]
  /\ res = [p \in Callers |-> NoRes]
  /\ returned = [n \in 1..MaxStates |-> 0]
  /\ minted = {}
  /\ claimed = {}
  /\ last = NoRes

NextConsume ==
  \/ Tick
  \/ GenerateState
  \/ \E p \in Callers : ConsumeLookup(p)
  \/ \E p \in Callers : ConsumeDelete(p)
  \/ cleanupExpiredStates

SpecConsume == InitEmpty /\ [][NextConsume]_vars

-----------------------------------------------------------------------------
(* Users *)

Emails == <<"a@x.com", "b@x.com", "c@x.com">>

\* bcrypt.hash / bcrypt.compare: a salted one-way hash that compare accepts
\* for the hashed plaintext and for no other
hashPassword(password) == <<"bcrypt", password>>
comparePassword(password, hash) == hash = <<"bcrypt", password>>

\* passwordHash: null
NullHash == <<>>

\* Column defaults of a new User row
UserDefaults ==
  [emailVerified |-> FALSE, phone |-> <<>>, phoneCountry |-> <<>>,
   phoneVerified |-> FALSE, onboardingStep |-> "EMAIL_VERIFICATION",
   onboardingComplete |-> FALSE, accountStatus |-> "PENDING_EMAIL"]

\* userRepository.create({email, firstName, lastName, passwordHash}): the
\* columns given, the others at their defaults
NewUser(id, email, passwordHash) ==
  [id |-> id, email |-> email, passwordHash |-> passwordHash,
   emailVerified |-> UserDefaults.emailVerified, phone |-> UserDefaults.phone,
   phoneCountry |-> UserDefaults.phoneCountry,
   phoneVerified |-> UserDefaults.phoneVerified,
   onboardingStep |-> UserDefaults.onboardingStep,
   onboardingComplete |-> UserDefaults.onboardingComplete,
   accountStatus |-> UserDefaults.accountStatus]

createFromOAuthActive(id, email, emailVerified, onboardingStep) ==
  [NewUser(id, email, NullHash) EXCEPT
     !.emailVerified = emailVerified, !.onboardingStep = onboardingStep,
     !.accountStatus = "ACTIVE"]

\* UserRepository.createFromOAuth: no password hash, the email verified by the
\* provider, the step given by the caller
createFromOAuth(id, email, emailVerified, onboardingStep) ==
  [NewUser(id, email, NullHash) EXCEPT
     !.emailVerified = emailVerified, !.onboardingStep = onboardingStep]

\* this.model.update({where: {id}, data}) on the User table
UpdateUser(us, id, data) ==
  {IF u.id = id
   THEN [f \in DOMAIN u |-> IF f \in DOMAIN data THEN data[f] ELSE u[f]]
   ELSE u : u \in us}

UserById(id) == {u \in users : u.id = id}
findNoUserByEmail(email) == {}

findCompletedByEmail(email) == {u \in users : u.email = email /\ u.onboardingComplete}

findByEmail(email) == {u \in users : u.email = email}

\* A user who registered and verified the email: the state in which the
\* mobile verification endpoints are used
EmailVerifiedUser(i) ==
  [NewUser(UserIds[i], Emails[i], hashPassword("pw1")) EXCEPT
     !.emailVerified = TRUE, !.onboardingStep = "MOBILE_VERIFICATION",
     !.accountStatus = "PENDING_MOBILE"]

-----------------------------------------------------------------------------
(* WhatsAppService: phone numbers are strings, kept as their characters *)

startsWithPlus(phone) == Len(phone) > 0 /\ Head(phone) = "+"

normalizePhoneNumberIdentity(phone) == phone

\* normalizePhoneNumber: phone.startsWith('+') ? phone : `+${phone}`
normalizePhoneNumber(phone) ==
  IF startsWithPlus(phone) THEN phone ELSE <<"+">> \o phone

countryCodeMap ==
  [prefix \in {<<"1">>, <<"9", "1">>, <<"4", "4">>, <<"3", "3">>, <<"4", "9">>,
               <<"3", "9">>, <<"3", "4">>, <<"7">>, <<"8", "6">>, <<"8", "1">>,
               <<"8", "2">>, <<"5", "5">>, <<"6", "1">>, <<"2", "7">>} |->
     CASE prefix = <<"1">> -> "US"
       [] prefix = <<"9", "1">> -> "IN"
       [] prefix = <<"4", "4">> -> "GB"
       [] prefix = <<"3", "3">> -> "FR"
       [] prefix = <<"4", "9">> -> "DE"
       [] prefix = <<"3", "9">> -> "IT"
       [] prefix = <<"3", "4">> -> "ES"
       [] prefix = <<"7">> -> "RU"
       [] prefix = <<"8", "6">> -> "CN"
       [] prefix = <<"8", "1">> -> "JP"
       [] prefix = <<"8", "2">> -> "KR"
       [] prefix = <<"5", "5">> -> "BR"
       [] prefix = <<"6", "1">> -> "AU"
       [] prefix = <<"2", "7">> -> "ZA"]

substring(s, n) == SubSeq(s, 1, IF n < Len(s) THEN n ELSE Len(s))

\* extractCountryCode: the loop for (i = 3; i >= 1; i--) over the prefixes
RECURSIVE matchPrefix(_, _)
matchPrefix(normalized, i) ==
  IF i < 1 THEN "UN"
  ELSE IF substring(normalized, i) \in DOMAIN countryCodeMap
       THEN countryCodeMap[substring(normalized, i)]
       ELSE matchPrefix(normalized, i - 1)

extractCountryCode(phone) ==
  matchPrefix(IF startsWithPlus(phone) THEN Tail(phone) ELSE phone, 3)

\* Sender numbers of inbound messages, each as the webhook may deliver it:
\* bare (message.from, E.164 without '+') or with a leading '+'
DeliveredPhones == {<<"1", "5", "5">>, <<"+", "1", "5", "5">>, <<"9", "1", "7">>}

-----------------------------------------------------------------------------
(* MobileVerificationRepository *)

findNoLatestMobileByUserId(userId) == {}

\* findLatestByUserId: findFirst where {userId, isVerified: false}
\* orderBy createdAt desc (ids grow with creation time)
findLatestMobileByUserId(userId) ==
  {v \in mobileVerifs :
     /\ v.userId = userId /\ ~v.isVerified
     /\ \A w \in mobileVerifs : (w.userId = userId /\ ~w.isVerified) => w.id <= v.id}

findByVerificationId(qrVerificationId) ==
  {v \in mobileVerifs : v.qrVerificationId = qrVerificationId}

\* isPhoneVerifiedByOtherUser(phone, excludeUserId)
isPhoneVerifiedByOtherUser(phone, excludeUserId) ==
  \E v \in mobileVerifs :
    v.phone = phone /\ v.isVerified /\ v.userId # excludeUserId

\* markAsVerified(id, phone, phoneCountry)
markAsVerified(id, phone, phoneCountry) ==
  {IF v.id = id
   THEN [v EXCEPT !.isVerified = TRUE, !.phone = phone, !.phoneCountry = phoneCountry]
   ELSE v : v \in mobileVerifs}

\* UserRepository.markPhoneVerified(id, phone, phoneCountry)
markPhoneVerified(id, phone, phoneCountry) ==
  UpdateUser(users, id,
             [phone |-> phone, phoneCountry |-> phoneCountry, phoneVerified |-> TRUE])

-----------------------------------------------------------------------------
(* MobileVerificationService *)

\* generateVerificationToken: 'VER' + 6 hex characters of 3 random bytes,
\* a fresh value per call
generateVerificationToken(n) ==
  <<"V", "E", "R", "0", "0", "0", "0", "0",
    <<"1", "2", "3", "4", "5", "6", "7", "8", "9", "A", "B", "C", "D", "E", "F">>[n]>>

initiateOutcomeAlwaysNew(rows, userId, n) ==
  LET created == [id |-> n, userId |-> userId, phone |-> <<>>, phoneCountry |-> <<>>,
                  method |-> "WHATSAPP_QR",
                  qrVerificationId |-> generateVerificationToken(n),
                  isVerified |-> FALSE, attempts |-> 0,
                  expiresAt |-> now + verificationExpiryMinutes]
  IN [rows |-> rows \cup {created}, verification |-> created, created |-> TRUE]

\* initiateVerification(userId, dto) from the point where the user exists:
\* the resulting table and the verification returned
initiateOutcome(rows, userId, n) ==
  LET unverified == {v \in rows : v.userId = userId /\ ~v.isVerified}
      latest == {v \in unverified : \A w \in unverified : w.id <= v.id}
      reusable == {v \in latest : v.expiresAt > now}
      created == [id |-> n, userId |-> userId, phone |-> <<>>, phoneCountry |-> <<>>,
                  method |-> "WHATSAPP_QR",
                  qrVerificationId |-> generateVerificationToken(n),
                  isVerified |-> FALSE, attempts |-> 0,
                  expiresAt |-> now + verificationExpiryMinutes]
  IN IF reusable # {}
     THEN [rows |-> rows, verification |-> CHOOSE v \in reusable : TRUE, created |-> FALSE]
     ELSE [rows |-> rows \cup {created}, verification |-> created, created |-> TRUE]

MobileResult(op, userId, outcome, o) ==
  [op |-> op, userId |-> userId, outcome |-> outcome,
   verificationId |-> o.verification.id,
   verificationToken |-> o.verification.qrVerificationId, created |-> o.created]

MobileFailure(op, userId, outcome) ==
  [op |-> op, userId |-> userId, outcome |-> outcome]

\* initiateVerification(userId, dto)
initiateVerification(userId) ==
  LET n == issued.mobiles + 1
      o == initiateOutcome(mobileVerifs, userId, n)
  IN
  IF UserById(userId) = {} THEN
    /\ last' = MobileFailure("initiateVerification", userId, "NotFound")
    /\ UNCHANGED <<mobileVerifs, issued>>
  ELSE IF \E u \in UserById(userId) : u.phoneVerified THEN
    /\ last' = MobileFailure("initiateVerification", userId, "BadRequest")
    /\ UNCHANGED <<mobileVerifs, issued>>
  ELSE
    /\ o.created => issued.mobiles < MaxMobiles
    /\ mobileVerifs' = o.rows
    /\ issued' = IF o.created THEN [issued EXCEPT !.mobiles = n] ELSE issued
    /\ last' = MobileResult("initiateVerification", userId, "ok", o)

InitiateVerification ==
  /\ \E u \in users : initiateVerification(u.id)
  /\ UNCHANGED <<sessions, now, users, emailVerifs, oauthStates, oauthLinks,
                 call, res, returned, minted, claimed>>

\* resendVerification(userId): delete the latest unverified row, then
\* initiateVerification
resendVerification(userId) ==
  LET existing == findLatestMobileByUserId(userId)
      afterDelete == IF existing = {} THEN mobileVerifs
                     ELSE RemoveRow(mobileVerifs, (CHOOSE v \in existing : TRUE).id)
      n == issued.mobiles + 1
      o == initiateOutcome(afterDelete, userId, n)
  IN
  IF UserById(userId) = {} THEN
    /\ mobileVerifs' = afterDelete
    /\ last' = MobileFailure("resendVerification", userId, "NotFound")
    /\ UNCHANGED issued
  ELSE IF \E u \in UserById(userId) : u.phoneVerified THEN
    /\ mobileVerifs' = afterDelete
    /\ last' = MobileFailure("resendVerification", userId, "BadRequest")
    /\ UNCHANGED issued
  ELSE
    /\ o.created => issued.mobiles < MaxMobiles
    /\ mobileVerifs' = o.rows
    /\ issued' = IF o.created THEN [issued EXCEPT !.mobiles = n] ELSE issued
    /\ last' = MobileResult("resendVerification", userId, "ok", o)

ResendVerification ==
  /\ \E u \in users : resendVerification(u.id)
  /\ UNCHANGED <<sessions, now, users, emailVerifs, oauthStates, oauthLinks,
                 call, res, returned, minted, claimed>>

\* verifyFromWebhook(verificationToken, phoneNumber) up to its second
\* database call: findByVerificationId and the checks on the row found.
\* taken records whether the number, in its normalized form, was already
\* the verified phone of a different user when the call began.
verifyLookup(p, token, phoneNumber) ==
  LET found == findByVerificationId(token) IN
  IF \/ found = {}
     \/ \E v \in found :
          v.isVerified \/ v.expiresAt < now \/ v.attempts >= maxAttempts
  THEN
    /\ last' = [op |-> "verifyFromWebhook", outcome |-> "false", reason |-> "row"]
    /\ call' = [call EXCEPT ![p] = Idle]
  ELSE
    \E v \in found :
      /\ last' = NoRes
      /\ call' = [call EXCEPT ![p] =
           [pc |-> "unique", verification |-> v, phoneNumber |-> phoneNumber,
            taken |-> \E u \in users :
                        /\ u.id # v.userId /\ u.phoneVerified
                        /\ u.phone = normalizePhoneNumber(phoneNumber)]]

\* A message whose token and sender the controller has extracted
VerifyLookup(p) ==
  /\ call[p] = Idle
  /\ \E token \in {generateVerificationToken(n) : n \in 1..MaxMobiles},
        phoneNumber \in DeliveredPhones :
       verifyLookup(p, token, phoneNumber)
  /\ UNCHANGED <<sessions, now, users, emailVerifs, mobileVerifs, oauthStates, oauthLinks,
                 issued, res, returned, minted, claimed>>

\* verifyFromWebhook: the uniqueness check isPhoneVerifiedByOtherUser
VerifyUnique(p) ==
  /\ call[p].pc = "unique"
  /\ IF isPhoneVerifiedByOtherUser(call[p].phoneNumber, call[p].verification.userId)
     THEN /\ last' = [op |-> "verifyFromWebhook", outcome |-> "false", reason |-> "phone"]
          /\ call' = [call EXCEPT ![p] = Idle]
     ELSE /\ last' = NoRes
          /\ call' = [call EXCEPT ![p].pc = "mark"]
  /\ UNCHANGED <<sessions, now, users, emailVerifs, mobileVerifs, oauthStates, oauthLinks,
                 issued, res, returned, minted, claimed>>

\* verifyFromWebhook: normalize, derive the country, markAsVerified on the
\* verification row (an update of a row that is gone rejects)
VerifyMark(p) ==
  /\ call[p].pc = "mark"
  /\ LET v == call[p].verification
         normalizedPhone == normalizePhoneNumber(call[p].phoneNumber)
         phoneCountry == extractCountryCode(normalizedPhone)
     IN
     IF \E w \in mobileVerifs : w.id = v.id THEN
       /\ mobileVerifs' = markAsVerified(v.id, normalizedPhone, phoneCountry)
       /\ call' = [call EXCEPT ![p].pc = "user"]
       /\ last' = NoRes
     ELSE
       /\ mobileVerifs' = mobileVerifs
       /\ call' = [call EXCEPT ![p] = Idle]
       /\ last' = [op |-> "verifyFromWebhook", outcome |-> "RecordNotFound",
                   reason |-> "row"]
  /\ UNCHANGED <<sessions, now, users, emailVerifs, oauthStates, oauthLinks,
                 issued, res, returned, minted, claimed>>

\* verifyFromWebhook: userService.markPhoneVerified, then return true
VerifyUser(p) ==
  /\ call[p].pc = "user"
  /\ LET v == call[p].verification
         normalizedPhone == normalizePhoneNumber(call[p].phoneNumber)
         phoneCountry == extractCountryCode(normalizedPhone)
     IN
       /\ users' = markPhoneVerified(v.userId, normalizedPhone, phoneCountry)
       /\ call' = [call EXCEPT ![p] = Idle]
       /\ last' = [op |-> "verifyFromWebhook", outcome |-> "true", reason |-> "none"]
       /\ claimed' = claimed \cup
            {[userId |-> v.userId, phoneNumber |-> call[p].phoneNumber,
              taken |-> call[p].taken]}
  /\ UNCHANGED <<sessions, now, emailVerifs, mobileVerifs, oauthStates, oauthLinks,
                 issued, res, returned, minted>>

\* The store when mobile verification begins: two users who have verified
\* their email (reached through register and verifyOtp)
InitMobile ==
  /\ now = 0
  /\ users = {EmailVerifiedUser(1), EmailVerifiedUser(2)}
  /\ emailVerifs = {}
  /\ mobileVerifs = {}
  /\ oauthStates = {}
  /\ oauthLinks = {}
  /\ issued = [states |-> 0, users |-> 2, mobiles |-> 0, tokens |-> 0]
  /\ sessions = {}
  /\ call = [p \in Callers |-> Idle]
  /\ res = [p \in Callers |-> NoRes]
  /\ returned = [n \in 1..MaxStates |-> 0]
  /\ minted = {}
  /\ claimed = {}
  /\ last = NoRes

\* One webhook delivery at a time, its database calls interleaved with the
\* other handlers
NextMobile ==
  \/ Tick
  \/ InitiateVerification
  \/ ResendVerification
  \/ VerifyLookup("c1")
  \/ VerifyUnique("c1")
  \/ VerifyMark("c1")
  \/ VerifyUser("c1")

SpecMobile == InitMobile /\ [][NextMobile]_vars

\* The verification initiateVerification creates for user i at time 0
PendingVerification(i) ==
  [id |-> i, userId |-> UserIds[i], phone |-> <<>>, phoneCountry |-> <<>>,
   method |-> "WHATSAPP_QR", qrVerificationId |-> generateVerificationToken(i),
   isVerified |-> FALSE, attempts |-> 0, expiresAt |-> verificationExpiryMinutes]

\* Both users have initiated mobile verification
InitWebhooks ==
  /\ now = 0
  /\ users = {EmailVerifiedUser(1), EmailVerifiedUser(2)}
  /\ emailVerifs = {}
  /\ mobileVerifs = {PendingVerification(1), PendingVerification(2)}
  /\ oauthStates = {}
  /\ oauthLinks = {}
  /\ issued = [states |-> 0, users |-> 2, mobiles |-> 2, tokens |-> 0]
  /\ sessions = {}
  /\ call = [p \in Callers |-> Idle]
  /\ res = [p \in Callers |-> NoRes]
  /\ returned = [n \in 1..MaxStates |-> 0]
  /\ minted = {}
  /\ claimed = {}
  /\ last = NoRes

\* Two webhook deliveries processed concurrently (processWebhookAsync is not
\* awaited by the controller), their database calls interleaved
NextWebhooks ==
  \/ Tick
  \/ \E p \in Callers : VerifyLookup(p)
  \/ \E p \in Callers : VerifyUnique(p)
  \/ \E p \in Callers : VerifyMark(p)
  \/ \E p \in Callers : VerifyUser(p)

SpecWebhooks == InitWebhooks /\ [][NextWebhooks]_vars

-----------------------------------------------------------------------------
(* OtpService and the OTP part of EncryptionService *)

\* generateOtp: Math.floor(100000 + Math.random() * 900000), any 6-digit value
Otps == {"123456", "654321"}

\* bcrypt.hash / bcrypt.compare on an OTP
hashOtp(otp) == <<"bcrypt", otp>>
compareOtp(otp, hash) == hash = <<"bcrypt", otp>>

otpExpiryTenMinutes == now + verificationExpiryMinutes

\* getOtpExpiryTime: new Date() plus OTP_EXPIRY_MINUTES
getOtpExpiryTime == now + OTP_EXPIRY_MINUTES

otpNeverExpires(expiresAt) == FALSE

\* isOtpExpired: new Date() > expiresAt
isOtpExpired(expiresAt) == now > expiresAt

attemptsExceededAtTwo(attempts) == attempts >= MAX_ATTEMPTS - 1

attemptsExceededAboveMax(attempts) == attempts > MAX_ATTEMPTS

\* isMaxAttemptsExceeded: attempts >= MAX_ATTEMPTS
isMaxAttemptsExceeded(attempts) == attempts >= MAX_ATTEMPTS

\* validateOtpAttempt: "ok" or the BadRequest it throws
validateOtpAttempt(verification) ==
  IF verification.isVerified THEN "already verified"
  ELSE IF isOtpExpired(verification.expiresAt) THEN "expired"
  ELSE IF isMaxAttemptsExceeded(verification.attempts) THEN "attempts exceeded"
  ELSE "ok"

-----------------------------------------------------------------------------
(* EmailVerificationRepository and EmailVerificationService *)

\* Column defaults of a new EmailVerification row
EmailVerificationDefaults == [attempts |-> 0, isVerified |-> FALSE]

findLatestEmailOfAnyStatus(userId) ==
  {v \in emailVerifs :
     /\ v.userId = userId
     /\ \A w \in emailVerifs : w.userId = userId => w.createdAt <= v.createdAt}

\* findLatestByUserId: findFirst where {userId, isVerified: false}
\* orderBy createdAt desc
findLatestEmailByUserId(userId) ==
  {v \in emailVerifs :
     /\ v.userId = userId /\ ~v.isVerified
     /\ \A w \in emailVerifs :
          (w.userId = userId /\ ~w.isVerified) => w.createdAt <= v.createdAt}

\* incrementAttempts(id)
incrementAttempts(id) ==
  {IF v.id = id THEN [v EXCEPT !.attempts = @ + 1] ELSE v : v \in emailVerifs}

\* markAsVerified(id) on the EmailVerification table
markEmailAsVerified(id) ==
  {IF v.id = id THEN [v EXCEPT !.isVerified = TRUE] ELSE v : v \in emailVerifs}

\* UserRepository.markEmailVerified(id)
markEmailVerified(us, id) ==
  UpdateUser(us, id, [emailVerified |-> TRUE])

\* sendVerificationOtp up to the email: the table after emailVerificationRepo.create
\* of the row for a generated OTP.  The row's id is fresh: a user has no
\* other row created at the same time.
sendVerificationOtp(rows, userId, email, otp) ==
  rows \cup {[id |-> <<userId, now>>, createdAt |-> now,
              userId |-> userId, email |-> email, otp |-> hashOtp(otp),
              expiresAt |-> getOtpExpiryTime,
              attempts |-> EmailVerificationDefaults.attempts,
              isVerified |-> EmailVerificationDefaults.isVerified]}

resendOtpKeepingRows(rows, userId, email, otp) ==
  sendVerificationOtp(rows, userId, email, otp)

\* resendOtp from deleteMany({userId}) on: the table after the delete and the
\* new row
resendOtp(rows, userId, email, otp) ==
  sendVerificationOtp({v \in rows : v.userId # userId}, userId, email, otp)

-----------------------------------------------------------------------------
(* OnboardingService *)

Passwords == {"pw1", "pw2"}
RegisterEmails == {Emails[1], Emails[2]}

\* generateOnboardingToken: jwtService.sign({userId, type: ONBOARDING})
generateOnboardingToken(userId) ==
  [userId |-> userId, type |-> "ONBOARDING", n |-> 0, sig |-> "valid"]

\* OnboardingStatusResponseDto.fromUser(user, onboardingToken)
fromUser(user, onboardingToken) ==
  [userId |-> user.id, email |-> user.email, currentStep |-> user.onboardingStep,
   onboardingComplete |-> user.onboardingComplete,
   accountStatus |-> user.accountStatus, emailVerified |-> user.emailVerified,
   phoneVerified |-> user.phoneVerified, onboardingToken |-> onboardingToken]

neverSkipPasswordCheck(user) == FALSE

\* resumeOnboarding: !user.emailVerified && !user.phoneVerified
shouldSkipPasswordCheck(user) == ~user.emailVerified /\ ~user.phoneVerified

\* What a register call did: the branch taken and the exception thrown
sendEmailBestEffort(mailOk) == "sent"

\* EmailService.sendEmail: a rejection of transporter.sendMail is logged and
\* rethrown as Error('Failed to send email'); nothing on the way up to the
\* endpoint catches it
sendEmail(mailOk) == IF mailOk THEN "sent" ELSE "EmailDeliveryError"

RegisterFailure(email, password, path, outcome) ==
  [op |-> "register", email |-> email, password |-> password, path |-> path,
   outcome |-> outcome]

\* What a register call returned
RegisterResult(email, password, path, view) ==
  [op |-> "register", email |-> email, password |-> password, path |-> path,
   outcome |-> "ok", view |-> view]

\* resumeOnboarding(user, password), with resendOtpIfNeeded and the resendOtp
\* it calls; mailOk is whether the email collaborator delivers
resumeOnboarding(user, password, mailOk, otp) ==
  IF /\ ~shouldSkipPasswordCheck(user)
     /\ user.passwordHash # NullHash
     /\ ~comparePassword(password, user.passwordHash)
  THEN
    /\ last' = RegisterFailure(user.email, password, "resume", "Unauthorized")
    /\ UNCHANGED <<emailVerifs, issued>>
  ELSE IF user.onboardingStep = "EMAIL_VERIFICATION" /\ ~user.emailVerified THEN
    /\ emailVerifs' = resendOtp(emailVerifs, user.id, user.email, otp)
    /\ UNCHANGED issued
    /\ last' = [mailOk |-> mailOk] @@
                  IF sendEmail(mailOk) = "sent"
                  THEN RegisterResult(user.email, password, "resume",
                                      fromUser(user, generateOnboardingToken(user.id)))
                  ELSE RegisterFailure(user.email, password, "resume",
                                       sendEmail(mailOk))
  ELSE
    /\ last' = RegisterResult(user.email, password, "resume",
                              fromUser(user, generateOnboardingToken(user.id)))
    /\ UNCHANGED <<emailVerifs, issued>>

\* createNewUser(dto), with the userService.create and sendVerificationOtp it
\* calls
createNewUser(email, password, mailOk, otp) ==
  /\ LET id == UserIds[issued.users + 1]
         user == NewUser(id, email, hashPassword(password))
     IN
       /\ users' = users \cup {user}
       /\ emailVerifs' = sendVerificationOtp(emailVerifs, id, email, otp)
       /\ issued' = [issued EXCEPT !.users = @ + 1]
       /\ last' = [mailOk |-> mailOk] @@
                     IF sendEmail(mailOk) = "sent"
                     THEN RegisterResult(email, password, "create",
                                         fromUser(user, generateOnboardingToken(id)))
                     ELSE RegisterFailure(email, password, "create", sendEmail(mailOk))

\* register(dto)
register(email, password, mailOk, otp) ==
  LET existingUser == findByEmail(email) IN
  IF \E u \in existingUser : u.onboardingComplete THEN
    /\ last' = RegisterFailure(email, password, "complete", "BadRequest")
    /\ UNCHANGED <<users, emailVerifs, issued>>
  ELSE IF existingUser # {} THEN
    /\ resumeOnboarding(CHOOSE u \in existingUser : TRUE, password, mailOk, otp)
    /\ UNCHANGED users
  ELSE
    createNewUser(email, password, mailOk, otp)

Register ==
  /\ \E email \in RegisterEmails, password \in Passwords, mailOk \in BOOLEAN, otp \in Otps :
       register(email, password, mailOk, otp)
  /\ UNCHANGED <<sessions, now, mobileVerifs, oauthStates, oauthLinks,
                 call, res, returned, minted, claimed>>

-----------------------------------------------------------------------------
(* EmailVerificationService endpoints *)

VerifyOtpResult(userId, otp, outcome, reason) ==
  [op |-> "verifyOtp", userId |-> userId, otp |-> otp, outcome |-> outcome,
   reason |-> reason]

\* verifyOtp(userId, otp)
verifyOtp(userId, otp) ==
  LET found == findLatestEmailByUserId(userId) IN
  IF found = {} THEN
    /\ last' = VerifyOtpResult(userId, otp, "BadRequest", "no verification request")
    /\ UNCHANGED <<users, emailVerifs>>
  ELSE
    LET verification == CHOOSE v \in found : TRUE
        valid == validateOtpAttempt(verification)
        advanced == [onboardingStep |-> "MOBILE_VERIFICATION",
                     accountStatus |-> "PENDING_MOBILE"]
    IN
    IF valid # "ok" THEN
      /\ last' = VerifyOtpResult(userId, otp, "BadRequest", valid)
      /\ UNCHANGED <<users, emailVerifs>>
    ELSE IF ~compareOtp(otp, verification.otp) THEN
      /\ emailVerifs' = incrementAttempts(verification.id)
      /\ last' = VerifyOtpResult(userId, otp, "Unauthorized", "invalid OTP")
      /\ UNCHANGED users
    ELSE
      /\ emailVerifs' = markEmailAsVerified(verification.id)
      /\ users' = UpdateUser(markEmailVerified(users, userId), userId, advanced)
      /\ last' = VerifyOtpResult(userId, otp, "ok", "none")

VerifyOtp ==
  /\ \E u \in users, otp \in Otps : verifyOtp(u.id, otp)
  /\ UNCHANGED <<sessions, now, mobileVerifs, oauthStates, oauthLinks, issued,
                 call, res, returned, minted, claimed>>

\* resendOtp(userId), as the resend endpoint calls it
ResendOtp ==
  /\ \E u \in users, mailOk \in BOOLEAN, otp \in Otps :
       IF u.emailVerified THEN
         /\ last' = [op |-> "resendOtp", userId |-> u.id, outcome |-> "BadRequest"]
         /\ UNCHANGED <<emailVerifs, issued>>
       ELSE
         /\ emailVerifs' = resendOtp(emailVerifs, u.id, u.email, otp)
         /\ UNCHANGED issued
         /\ last' = [op |-> "resendOtp", userId |-> u.id, mailOk |-> mailOk,
                     outcome |-> IF sendEmail(mailOk) = "sent" THEN "ok"
                                 ELSE sendEmail(mailOk)]
  /\ UNCHANGED <<sessions, now, users, mobileVerifs, oauthStates, oauthLinks,
                 call, res, returned, minted, claimed>>

-----------------------------------------------------------------------------
(* OAuthProviderRepository and OAuthService *)

\* Profiles a provider may return from getUserProfile
OAuthProfiles(provider) ==
  {[provider |-> provider, providerId |-> <<"sub", e>>, email |-> e] : e \in RegisterEmails}

upsertAlwaysCreating(userId, profile, accessToken) ==
  oauthLinks \cup {[userId |-> userId, provider |-> profile.provider,
                    providerId |-> profile.providerId, email |-> profile.email,
                    accessToken |-> accessToken]}

upsertTakingOver(userId, profile, accessToken) ==
  {l \in oauthLinks :
     ~(l.provider = profile.provider /\ l.providerId = profile.providerId)}
    \cup {[userId |-> userId, provider |-> profile.provider,
           providerId |-> profile.providerId, email |-> profile.email,
           accessToken |-> accessToken]}

\* upsert(userId, profile, accessToken, ...): update the row with the same
\* (provider, providerId), else create one
upsert(userId, profile, accessToken) ==
  IF \E l \in oauthLinks :
       l.provider = profile.provider /\ l.providerId = profile.providerId
  THEN {IF l.provider = profile.provider /\ l.providerId = profile.providerId
        THEN [l EXCEPT !.email = profile.email, !.accessToken = accessToken]
        ELSE l : l \in oauthLinks}
  ELSE oauthLinks \cup {[userId |-> userId, provider |-> profile.provider,
                         providerId |-> profile.providerId, email |-> profile.email,
                         accessToken |-> accessToken]}

\* exchangeCodeForToken(code, codeVerifier): the tokens the provider issues
\* for the code of this round trip
exchangeCodeForToken(codeVerifier) == [accessToken |-> <<"access", codeVerifier[2]>>]

providerMismatchIgnored(stateProvider, provider) == FALSE

\* handleCallback: stateData.provider !== provider
providerMismatch(stateProvider, provider) == stateProvider # provider

\* No OAuthState row: the state token the caller presented
NoState(token) == [id |-> 0, stateToken |-> token]

\* What a handleCallback call threw: state is the OAuthState row it consumed,
\* exchanged whether it had called exchangeCodeForToken
CallbackFailure(provider, state, outcome, reason, exchanged) ==
  [op |-> "handleCallback", provider |-> provider, state |-> state,
   outcome |-> outcome, reason |-> reason, exchanged |-> exchanged]

\* A failure of findOrCreateUser, for the profile the provider returned
ProfileFailure(provider, state, outcome, reason, profile) ==
  [op |-> "handleCallback", provider |-> provider, state |-> state,
   outcome |-> outcome, reason |-> reason, exchanged |-> TRUE,
   email |-> profile.email]

\* findOrCreateUser(profile, linkToUserId) and linkOAuthProvider, after the
\* code exchange and the profile fetch succeeded
findOrCreateUser(provider, state, profile, linkToUserId) ==
  LET existingUser == findByEmail(profile.email)
      linked(user, isNewUser) ==
        /\ oauthLinks' = upsert(user.id, profile,
                                exchangeCodeForToken(state.codeVerifier).accessToken)
        /\ last' = [op |-> "handleCallback", provider |-> provider, state |-> state,
                    outcome |-> "ok", reason |-> "none", exchanged |-> TRUE,
                    email |-> profile.email,
                    userId |-> user.id, isNewUser |-> isNewUser,
                    onboardingToken |-> generateOnboardingToken(user.id)]
  IN
  IF linkToUserId # None THEN
    IF UserById(linkToUserId) = {} THEN
      /\ last' = ProfileFailure(provider, state, "NotFound", "user", profile)
      /\ UNCHANGED <<users, oauthLinks, issued>>
    ELSE
      /\ linked(CHOOSE u \in UserById(linkToUserId) : TRUE, FALSE)
      /\ UNCHANGED <<users, issued>>
  ELSE IF \E u \in existingUser : u.onboardingComplete THEN
    /\ last' = ProfileFailure(provider, state, "Conflict", "user exists", profile)
    /\ UNCHANGED <<users, oauthLinks, issued>>
  ELSE IF existingUser # {} THEN
    /\ linked(CHOOSE u \in existingUser : TRUE, FALSE)
    /\ UNCHANGED <<users, issued>>
  ELSE
    /\ LET newUser == createFromOAuth(UserIds[issued.users + 1], profile.email,
                                      TRUE, "SET_PASSWORD")
       IN /\ users' = users \cup {newUser}
          /\ linked(newUser, TRUE)
    /\ issued' = [issued EXCEPT !.users = @ + 1]

\* handleCallback(provider, code, state); exchangeOk is whether the provider
\* accepts the code and returns a profile
handleCallback(provider, token, exchangeOk, profile) ==
  LET sig == verifyStateToken(token)
      found == findByToken(token)
  IN
  IF sig = "RangeError" THEN
    /\ last' = CallbackFailure(provider, NoState(token), "RangeError", "state", FALSE)
    /\ UNCHANGED <<users, oauthStates, oauthLinks, issued>>
  ELSE IF sig = "false" \/ found = {} THEN
    /\ last' = CallbackFailure(provider, NoState(token), "Unauthorized", "state", FALSE)
    /\ UNCHANGED <<users, oauthStates, oauthLinks, issued>>
  ELSE
    LET r == CHOOSE r \in found : TRUE
        stateData == StateData(r)
    IN
    /\ oauthStates' = RemoveRow(oauthStates, r.id)
    /\ IF now > r.expiresAt THEN
         /\ last' = CallbackFailure(provider, r, "Unauthorized", "state expired", FALSE)
         /\ UNCHANGED <<users, oauthLinks, issued>>
       ELSE IF providerMismatch(stateData.provider, provider) THEN
         /\ last' = CallbackFailure(provider, r, "Unauthorized", "Provider mismatch", FALSE)
         /\ UNCHANGED <<users, oauthLinks, issued>>
       ELSE IF ~exchangeOk THEN
         /\ last' = CallbackFailure(provider, r, "ProviderError", "exchange", TRUE)
         /\ UNCHANGED <<users, oauthLinks, issued>>
       ELSE
         findOrCreateUser(provider, r, profile, stateData.userId)

HandleCallback ==
  /\ \E provider \in Providers, token \in PresentedTokens, exchangeOk \in BOOLEAN :
       \E profile \in OAuthProfiles(provider) :
         handleCallback(provider, token, exchangeOk, profile)
  /\ UNCHANGED <<sessions, now, emailVerifs, mobileVerifs, call, res, returned, minted, claimed>>

-----------------------------------------------------------------------------
(* The onboarding and OAuth endpoints *)

\* A user who completed onboarding earlier: email and phone verified, active
CompletedUser ==
  [NewUser(UserIds[1], Emails[1], hashPassword("pw1")) EXCEPT
     !.emailVerified = TRUE, !.phone = <<"+", "9", "1", "7">>, !.phoneCountry = "IN",
     !.phoneVerified = TRUE, !.onboardingStep = "COMPLETE",
     !.onboardingComplete = TRUE, !.accountStatus = "ACTIVE"]

Init ==
  /\ now = 0
  /\ users = {CompletedUser}
  /\ emailVerifs = {}
  /\ mobileVerifs = {}
  /\ oauthStates = {}
  /\ oauthLinks = {}
  /\ issued = [states |-> 0, users |-> 1, mobiles |-> 0, tokens |-> 0]
  /\ sessions = {}
  /\ call = [p \in Callers |-> Idle]
  /\ res = [p \in Callers |-> NoRes]
  /\ returned = [n \in 1..MaxStates |-> 0]
  /\ minted = {}
  /\ claimed = {}
  /\ last = NoRes

\* Registration and email verification
Next ==
  \/ Tick
  \/ Register
  \/ VerifyOtp
  \/ ResendOtp

Spec == Init /\ [][Next]_vars

\* OAuth signup (initiateOAuth is generateState plus the provider's URL)
NextOAuth ==
  \/ Tick
  \/ GenerateState
  \/ HandleCallback

SpecOAuth == Init /\ [][NextOAuth]_vars

\* OAuth signup next to registration: register resumes users that
\* handleCallback created
SpecResume == Init /\ [][NextOAuth \/ Register]_vars

-----------------------------------------------------------------------------
(* OnboardingService.setPassword *)

setPasswordAlwaysPermitted(user) == "none"

\* The checks of setPassword on the user found: the BadRequest it throws,
\* or "none"
setPasswordRejection(user) ==
  IF user.onboardingStep # "SET_PASSWORD" THEN "not on SET_PASSWORD step"
  ELSE IF user.passwordHash # NullHash THEN "already has a password"
  ELSE "none"

\* setPassword(userId, password): after the checks the password is hashed;
\* the two updates that would store the hash and advance the step are
\* commented out in the source, so nothing is written
setPassword(userId, password) ==
  LET user == CHOOSE u \in UserById(userId) : TRUE
      rejection == setPasswordRejection(user)
      passwordHash == hashPassword(password)
  IN
    /\ last' = [op |-> "setPassword", userId |-> userId, password |-> password,
                outcome |-> IF rejection = "none" THEN "ok" ELSE "BadRequest",
                reason |-> rejection]
    /\ UNCHANGED users

SetPassword ==
  /\ \E u \in users, password \in Passwords : setPassword(u.id, password)
  /\ UNCHANGED <<sessions, now, emailVerifs, mobileVerifs, oauthStates, oauthLinks, issued,
                 call, res, returned, minted, claimed>>

\* OAuth signup, registration and email verification next to setPassword
\* (which reads no clock)
SpecPassword ==
  Init /\ [][GenerateState \/ HandleCallback \/ Register \/ VerifyOtp
              \/ SetPassword]_vars

-----------------------------------------------------------------------------
(* UserService.deactivate and the whole user lifecycle *)

\* UserRepository.delete: a soft delete, the status column only
softDelete(id) ==
  UpdateUser(users, id, [accountStatus |-> "DEACTIVATED"])

\* UserService.deactivate(id)
deactivate(id) ==
  IF UserById(id) = {} THEN
    /\ last' = [op |-> "deactivate", userId |-> id, outcome |-> "NotFound"]
    /\ UNCHANGED users
  ELSE
    /\ users' = softDelete(id)
    /\ last' = [op |-> "deactivate", userId |-> id, outcome |-> "ok"]

Deactivate ==
  /\ \E i \in DOMAIN UserIds : deactivate(UserIds[i])
  /\ UNCHANGED <<sessions, now, emailVerifs, mobileVerifs, oauthStates, oauthLinks, issued,
                 call, res, returned, minted, claimed>>

\* Rows in the verification and OAuth tables
StoredRows ==
  Cardinality(emailVerifs) + Cardinality(mobileVerifs)
    + Cardinality(oauthStates) + Cardinality(oauthLinks)

\* Every operation that writes a User row, from registration or OAuth signup
\* through email and mobile verification to deactivation. The operations
\* that insert rows run while the tables hold fewer than MaxRows rows.
NextLifecycle ==
  \/ StoredRows < MaxRows /\ Register
  \/ VerifyOtp
  \/ StoredRows < MaxRows /\ ResendOtp
  \/ SetPassword
  \/ StoredRows < MaxRows /\ InitiateVerification
  \/ StoredRows < MaxRows /\ ResendVerification
  \/ VerifyLookup("c1")
  \/ VerifyUnique("c1")
  \/ VerifyMark("c1")
  \/ VerifyUser("c1")
  \/ StoredRows < MaxRows /\ GenerateState
  \/ StoredRows < MaxRows /\ HandleCallback
  \/ Deactivate

SpecLifecycle == Init /\ [][NextLifecycle]_vars

-----------------------------------------------------------------------------
(* SessionService and the session tokens of JwtAuthService *)

\* generateAccessToken(userId) and generateRefreshToken(userId): a signed
\* token carrying the user and its type; n tells two mintings apart
generateAccessToken(userId, n) ==
  [userId |-> userId, type |-> "ACCESS", n |-> n, sig |-> "valid"]

generateRefreshToken(userId, n) ==
  [userId |-> userId, type |-> "REFRESH", n |-> n, sig |-> "valid"]

getAccessTokenExpiryTime == now + ACCESS_EXPIRY_MINUTES
getRefreshTokenExpiryTime == now + REFRESH_EXPIRY_MINUTES

\* verifyRefreshToken(token): the payload of a token with a valid signature
\* and the refresh type, else an exception
verifyRefreshToken(token) ==
  IF token.sig = "valid" /\ token.type = "REFRESH"
  THEN [outcome |-> "ok", userId |-> token.userId]
  ELSE [outcome |-> "Unauthorized"]

findNoSessionByAccessToken(accessToken) == {}

\* sessionRepository.findOne({where: {refreshToken}}) / ({where: {accessToken}})
findByRefreshToken(refreshToken) == {s \in sessions : s.refreshToken = refreshToken}
findByAccessTokenOfUser(accessToken) ==
  {s \in sessions : s.userId = accessToken.userId}

findByAccessToken(accessToken) == {s \in sessions : s.accessToken = accessToken}

keepSessionActive(id) == sessions

\* sessionRepository.update(id, {isActive: false})
deactivateSession(id) ==
  {IF s.id = id THEN [s EXCEPT !.isActive = FALSE] ELSE s : s \in sessions}

updateAccessTokenReactivating(id, accessToken, accessTokenExpiresAt) ==
  {IF s.id = id
   THEN [s EXCEPT !.accessToken = accessToken,
                  !.accessTokenExpiresAt = accessTokenExpiresAt,
                  !.isActive = TRUE]
   ELSE s : s \in sessions}

updateAccessTokenExtending(id, accessToken, accessTokenExpiresAt) ==
  {IF s.id = id
   THEN [s EXCEPT !.accessToken = accessToken,
                  !.accessTokenExpiresAt = accessTokenExpiresAt,
                  !.refreshTokenExpiresAt = now + REFRESH_EXPIRY_MINUTES]
   ELSE s : s \in sessions}

\* SessionRepository.updateAccessToken(id, accessToken, accessTokenExpiresAt)
updateAccessToken(id, accessToken, accessTokenExpiresAt) ==
  {IF s.id = id
   THEN [s EXCEPT !.accessToken = accessToken,
                  !.accessTokenExpiresAt = accessTokenExpiresAt]
   ELSE s : s \in sessions}

\* createSession(userId, ipAddress, userAgent)
createSession(userId) ==
  LET accessToken == generateAccessToken(userId, issued.tokens + 1)
      refreshToken == generateRefreshToken(userId, issued.tokens + 2)
      session == [id |-> issued.tokens + 1, userId |-> userId,
                  accessToken |-> accessToken, refreshToken |-> refreshToken,
                  accessTokenExpiresAt |-> getAccessTokenExpiryTime,
                  refreshTokenExpiresAt |-> getRefreshTokenExpiryTime,
                  isActive |-> TRUE]
  IN
    /\ issued.tokens + 2 <= MaxTokens
    /\ sessions' = sessions \cup {session}
    /\ issued' = [issued EXCEPT !.tokens = @ + 2]
    /\ last' = [op |-> "createSession", outcome |-> "ok", session |-> session]

CreateSession ==
  /\ \E u \in users : createSession(u.id)
  /\ UNCHANGED <<now, users, emailVerifs, mobileVerifs, oauthStates, oauthLinks,
                 call, res, returned, minted, claimed>>

SessionFailure(op, token, reason) ==
  [op |-> op, token |-> token, outcome |-> "Unauthorized", reason |-> reason]

\* refreshAccessToken(refreshToken)
refreshAccessToken(refreshToken) ==
  LET payload == verifyRefreshToken(refreshToken)
      found == findByRefreshToken(refreshToken)
  IN
  IF payload.outcome # "ok" THEN
    /\ last' = SessionFailure("refreshAccessToken", refreshToken, "token")
    /\ UNCHANGED <<sessions, issued>>
  ELSE IF found = {} \/ \E s \in found : ~s.isActive THEN
    /\ last' = SessionFailure("refreshAccessToken", refreshToken, "session")
    /\ UNCHANGED <<sessions, issued>>
  ELSE
    \E session \in found :
      IF now > session.refreshTokenExpiresAt THEN
        /\ sessions' = deactivateSession(session.id)
        /\ last' = SessionFailure("refreshAccessToken", refreshToken, "refresh expired")
        /\ UNCHANGED issued
      ELSE
        LET newAccessToken == generateAccessToken(payload.userId, issued.tokens + 1) IN
        /\ issued.tokens < MaxTokens
        /\ sessions' = updateAccessToken(session.id, newAccessToken,
                                         getAccessTokenExpiryTime)
        /\ issued' = [issued EXCEPT !.tokens = @ + 1]
        /\ last' = [op |-> "refreshAccessToken", token |-> refreshToken,
                    outcome |-> "ok", reason |-> "none",
                    accessToken |-> newAccessToken,
                    refreshToken |-> session.refreshToken]

\* Tokens a client may present: those the sessions store, and forged copies
PresentedSessionTokens ==
  LET StoredTokens ==
        {s.accessToken : s \in sessions} \cup {s.refreshToken : s \in sessions}
  IN StoredTokens \cup {[t EXCEPT !.sig = "forged"] : t \in StoredTokens}
       \cup {generateAccessToken(UserIds[1], 1)}
       \cup {generateOnboardingToken(u.id) : u \in users}

RefreshAccessToken ==
  /\ \E token \in PresentedSessionTokens : refreshAccessToken(token)
  /\ UNCHANGED <<now, users, emailVerifs, mobileVerifs, oauthStates, oauthLinks,
                 call, res, returned, minted, claimed>>

\* invalidateSession(accessToken)
invalidateSession(accessToken) ==
  LET found == findByAccessToken(accessToken) IN
  /\ sessions' = IF found = {} THEN sessions
                 ELSE deactivateSession((CHOOSE s \in found : TRUE).id)
  /\ last' = [op |-> "invalidateSession", token |-> accessToken,
              outcome |-> "ok", reason |-> "none"]

InvalidateSession ==
  /\ \E token \in PresentedSessionTokens : invalidateSession(token)
  /\ UNCHANGED <<now, users, emailVerifs, mobileVerifs, oauthStates, oauthLinks,
                 issued, call, res, returned, minted, claimed>>

\* validateAccessToken(accessToken)
validateAccessToken(accessToken) ==
  LET found == findByAccessToken(accessToken) IN
  IF found = {} \/ \E s \in found : ~s.isActive THEN
    last' = SessionFailure("validateAccessToken", accessToken, "session")
  ELSE IF \E s \in found : now > s.accessTokenExpiresAt THEN
    last' = SessionFailure("validateAccessToken", accessToken, "access expired")
  ELSE
    last' = [op |-> "validateAccessToken", token |-> accessToken,
             outcome |-> "ok", reason |-> "none"]

ValidateAccessToken ==
  /\ \E token \in PresentedSessionTokens : validateAccessToken(token)
  /\ UNCHANGED <<now, users, emailVerifs, mobileVerifs, oauthStates, oauthLinks,
                 sessions, issued, call, res, returned, minted, claimed>>

\* Time passes: a few minutes at a time, and once by the lifetime of a
\* refresh token
Elapse ==
  /\ \/ \E d \in TickSteps :
          /\ (now % REFRESH_EXPIRY_MINUTES) + d <= MaxTicks * d
          /\ now' = now + d
     \/ /\ now < REFRESH_EXPIRY_MINUTES
        /\ now' = now + REFRESH_EXPIRY_MINUTES
  /\ UNCHANGED <<users, emailVerifs, mobileVerifs, oauthStates, oauthLinks,
                 sessions, issued, call, res, returned, minted, claimed>>
  /\ last' = NoRes

\* The sessions of the user who completed onboarding
NextSession ==
  \/ Elapse
  \/ CreateSession
  \/ RefreshAccessToken
  \/ InvalidateSession
  \/ ValidateAccessToken

SpecSession == Init /\ [][NextSession]_vars

-----------------------------------------------------------------------------
(* JwtStrategy and the three token audiences *)

anyTokenType(payload) == FALSE

\* JwtStrategy.validate: the check of the type claim
notAccessType(payload) == payload.type # "ACCESS"

\* AuthService.validateUser(userId): the exception it throws, or "ok"
validateUser(userId) ==
  IF UserById(userId) = {} THEN "NotFound"
  ELSE IF \E u \in UserById(userId) : u.accountStatus # "ACTIVE" THEN "Unauthorized"
  ELSE "ok"

\* A bearer token on a route that requires an access token: passport checks
\* the signature, then JwtStrategy.validate(payload) runs
validate(token) ==
  last' = [op |-> "validate", token |-> token,
           outcome |-> IF token.sig # "valid" THEN "Unauthorized"
                       ELSE IF notAccessType(token) THEN "Unauthorized"
                       ELSE validateUser(token.userId),
           reason |-> IF token.sig # "valid" THEN "signature"
                      ELSE IF notAccessType(token) THEN "type"
                      ELSE "user"]

Validate ==
  /\ \E token \in PresentedSessionTokens : validate(token)
  /\ UNCHANGED <<now, users, emailVerifs, mobileVerifs, oauthStates, oauthLinks,
                 sessions, issued, call, res, returned, minted, claimed>>

\* A bearer token on a route marked @Onboarding(): the signature and the
\* onboarding type are required
verifyOnboardingToken(token) ==
  last' = [op |-> "verifyOnboardingToken", token |-> token,
           outcome |-> IF token.sig = "valid" /\ token.type = "ONBOARDING"
                       THEN "ok" ELSE "Unauthorized",
           reason |-> IF token.sig # "valid" THEN "signature"
                      ELSE IF token.type # "ONBOARDING" THEN "type" ELSE "none"]

VerifyOnboardingToken ==
  /\ \E token \in PresentedSessionTokens : verifyOnboardingToken(token)
  /\ UNCHANGED <<now, users, emailVerifs, mobileVerifs, oauthStates, oauthLinks,
                 sessions, issued, call, res, returned, minted, claimed>>

\* Sessions are created and refreshed and users deactivated while tokens of
\* every type are presented to every audience
NextAudience ==
  \/ Deactivate
  \/ CreateSession
  \/ RefreshAccessToken
  \/ Validate
  \/ VerifyOnboardingToken

SpecAudience == Init /\ [][NextAudience]_vars

-----------------------------------------------------------------------------
(* WhatsAppWebhookController.extractVerificationToken *)

Null == <<"null">>

UpperCaseLetters ==
  <<"A", "B", "C", "D", "E", "F", "G", "H", "I", "J", "K", "L", "M",
    "N", "O", "P", "Q", "R", "S", "T", "U", "V", "W", "X", "Y", "Z">>

LowerCaseLetters ==
  <<"a", "b", "c", "d", "e", "f", "g", "h", "i", "j", "k", "l", "m",
    "n", "o", "p", "q", "r", "s", "t", "u", "v", "w", "x", "y", "z">>

DecimalDigits == {"0", "1", "2", "3", "4", "5", "6", "7", "8", "9"}

keepCase(c) == c

\* String.prototype.toUpperCase on one character; the i flag of the regular
\* expression compares characters through it
toUpperCase(c) ==
  IF \E i \in DOMAIN LowerCaseLetters : LowerCaseLetters[i] = c
  THEN UpperCaseLetters[CHOOSE i \in DOMAIN LowerCaseLetters : LowerCaseLetters[i] = c]
  ELSE c

\* [A-Z0-9] under the i flag
matchesAlphanumeric(c) ==
  \/ c \in DecimalDigits
  \/ \E i \in DOMAIN UpperCaseLetters : UpperCaseLetters[i] = toUpperCase(c)

\* Where the group ([A-Z0-9]{6}) begins when /VER-?/i is tried at position i
groupStart(text, i) ==
  IF i + 3 <= Len(text) /\ text[i + 3] = "-" THEN i + 4 ELSE i + 3

\* /VER-?([A-Z0-9]{6})/i matches at position i
matchesAt(text, i) ==
  /\ i + 2 <= Len(text)
  /\ toUpperCase(text[i]) = "V"
  /\ toUpperCase(text[i + 1]) = "E"
  /\ toUpperCase(text[i + 2]) = "R"
  /\ groupStart(text, i) + 5 <= Len(text)
  /\ \A k \in 0..5 : matchesAlphanumeric(text[groupStart(text, i) + k])

\* extractVerificationToken(messageText): the first match, as
\* `VER${match[1].toUpperCase()}`, or null
extractVerificationToken(messageText) ==
  LET matches == {i \in 1..Len(messageText) : matchesAt(messageText, i)} IN
  IF matches = {} THEN Null
  ELSE LET i == CHOOSE m \in matches : \A o \in matches : m <= o
           g == groupStart(messageText, i)
       IN <<"V", "E", "R">> \o [k \in 1..6 |-> toUpperCase(messageText[g + k - 1])]

\* Message texts: an optional lead-in, three letters, a separator, a run of
\* characters and an optional tail
MessageTexts ==
  LET TextLeads == {<<>>, <<"m", "y", " ">>, <<"s", "e", "r">>}
      TextHeads == {<<"V", "E", "R">>, <<"v", "e", "r">>, <<"V", "e", "R">>,
                    <<"V", "E", "X">>}
      TextSeparators == {<<>>, <<"-">>, <<"-", "-">>, <<" ">>}
      TextRuns ==
        {<<"A", "B", "C", "1", "2", "3">>, <<"a", "b", "c", "1", "2", "3">>,
         <<"0", "0", "f", "F", "9", "z">>, <<"A", "B", "C", "1", "2">>,
         <<"A", "B", "C", "_", "2", "3">>, <<"A", "B", "C", "1", "2", "3", "4">>,
         <<"v", "e", "r", "-", "q", "w", "e", "r", "t", "y">>}
      TextTails == {<<>>, <<" ", "o", "k">>,
                    <<"V", "E", "R", "7", "7", "7", "7", "7", "7">>}
  IN {a \o b \o c \o d \o e :
        a \in TextLeads, b \in TextHeads, c \in TextSeparators, d \in TextRuns,
        e \in TextTails}

\* A text message has arrived and nothing else has happened
InitMessage ==
  /\ now = 0
  /\ users = {EmailVerifiedUser(1), EmailVerifiedUser(2)}
  /\ emailVerifs = {}
  /\ mobileVerifs = {}
  /\ oauthStates = {}
  /\ oauthLinks = {}
  /\ issued = [states |-> 0, users |-> 2, mobiles |-> 0, tokens |-> 0]
  /\ sessions = {}
  /\ call = [p \in Callers |-> Idle]
  /\ res = [p \in Callers |-> NoRes]
  /\ returned = [n \in 1..MaxStates |-> 0]
  /\ minted = {}
  /\ claimed = {}
  /\ \E text \in MessageTexts : last = [op |-> "message", text |-> text]

\* processWebhookAsync calls extractVerificationToken on the message text
ExtractVerificationToken ==
  /\ last.op = "message"
  /\ last' = [op |-> "extractVerificationToken", text |-> last.text,
              result |-> extractVerificationToken(last.text)]
  /\ UNCHANGED <<now, users, emailVerifs, mobileVerifs, oauthStates, oauthLinks,
                 sessions, issued, call, res, returned, minted, claimed>>

SpecExtract == InitMessage /\ [][ExtractVerificationToken]_vars

-----------------------------------------------------------------------------
(* WhatsAppWebhookController.handleWebhook and validateWebhookSignature *)

\* crypto.createHmac('sha256', appSecret).update(payload, 'utf8'): the bytes
webhookHmac(payload) == [len |-> SigBytes, mac |-> <<"appSecret", payload>>]

\* digest('hex'): lower-case hexadecimal text of the bytes, nothing after it
digestHex(bytes) == [bytes |-> bytes, upperCase |-> FALSE, rest |-> <<>>]

\* Buffer.from(text, 'hex'): the bytes of the hexadecimal digits, in either
\* case, up to the first character that is not one
BufferFromHex(text) == text.bytes

\* No X-Hub-Signature-256 header, no rawBody on the request
NoSignature == <<>>
NoBody == <<>>

acceptAnySignature(payload, signature) == TRUE

\* validateWebhookSignature(payload, signature); the signature is kept as
\* the parts signature.split('=') gives. An exception (timingSafeEqual on
\* buffers of different length) is caught and gives false.
validateWebhookSignature(payload, signature) ==
  IF signature = NoSignature THEN FALSE
  ELSE IF Len(signature) # 2 \/ signature[1] # "sha256" THEN FALSE
  ELSE timingSafeEqual(BufferFromHex(digestHex(webhookHmac(payload))),
                       BufferFromHex(signature[2])) = "true"

\* Payloads: one text message and its sender; the text is a token typed in
\* lower case with a hyphen, or no token
WebhookBodies ==
  LET WebhookTexts ==
        {<<"v", "e", "r", "-">> \o SubSeq(generateVerificationToken(n), 4, 9) :
           n \in 1..MaxMobiles} \cup {<<"h", "i">>}
  IN [messageText : WebhookTexts, from : DeliveredPhones]

\* Headers sent with a body: the signature of the body, the same in upper
\* case or with characters after it, a signature made without the secret, a
\* truncated one, one for another algorithm, one without '=', one with a
\* second '=', and none
WebhookSignatures(body) ==
  LET hex == digestHex(webhookHmac(body)) IN
  {<<"sha256", hex>>,
   <<"sha256", [hex EXCEPT !.upperCase = TRUE]>>,
   <<"sha256", [hex EXCEPT !.rest = <<"z", "z">>]>>,
   <<"sha256", digestHex([len |-> SigBytes, mac |-> <<"forged", body>>])>>,
   <<"sha256", digestHex([len |-> SigBytes - 1, mac |-> <<"appSecret", body>>])>>,
   <<"sha1", hex>>,
   <<"sha256">>,
   <<"sha256", hex, <<>>>>,
   NoSignature}

noAcknowledgement == NoRes



\* return { status: 'ok' }
acknowledgement == [op |-> "handleWebhook", outcome |-> "ok"]

\* handleWebhook(request, signature, payload) up to its return; the
\* processing it starts runs on in later steps
handleWebhook(p, rawBody, signature, payload) ==
  IF rawBody = NoBody \/ ~validateWebhookSignature(rawBody, signature) THEN
    /\ last' = [op |-> "handleWebhook", outcome |-> "Unauthorized",
                reason |-> IF rawBody = NoBody THEN "raw body" ELSE "signature"]
    /\ res' = [res EXCEPT ![p] = [op |-> "handleWebhook", outcome |-> "Unauthorized"]]
    /\ call' = call
  ELSE
    /\ last' = [op |-> "handleWebhook", outcome |-> "ok", reason |-> "none",
                rawBody |-> rawBody, signature |-> signature]
    /\ res' = [res EXCEPT ![p] = acknowledgement]
    /\ call' = [call EXCEPT ![p] =
         [pc |-> "process", messageText |-> payload.messageText,
          phoneNumber |-> payload.from]]

HandleWebhook(p) ==
  /\ call[p] = Idle
  /\ \E payload \in WebhookBodies :
       \E rawBody \in {payload, NoBody}, signature \in WebhookSignatures(payload) :
         handleWebhook(p, rawBody, signature, payload)
  /\ UNCHANGED <<now, users, emailVerifs, mobileVerifs, oauthStates, oauthLinks,
                 sessions, issued, returned, minted, claimed>>

\* processWebhookAsync for the text message of the payload: extract the
\* token, skip the message without one, else call verifyFromWebhook
ProcessMessage(p) ==
  /\ call[p].pc = "process"
  /\ LET verificationToken == extractVerificationToken(call[p].messageText) IN
     IF verificationToken = Null THEN
       /\ last' = [op |-> "processWebhookAsync", outcome |-> "skipped"]
       /\ call' = [call EXCEPT ![p] = Idle]
     ELSE verifyLookup(p, verificationToken, call[p].phoneNumber)
  /\ UNCHANGED <<now, users, emailVerifs, mobileVerifs, oauthStates, oauthLinks,
                 sessions, issued, res, returned, minted, claimed>>

\* Webhook deliveries next to the users' own requests for a verification
NextWebhookPost ==
  \/ InitiateVerification
  \/ ResendVerification
  \/ HandleWebhook("c1")
  \/ ProcessMessage("c1")
  \/ VerifyUnique("c1")
  \/ VerifyMark("c1")
  \/ VerifyUser("c1")

SpecWebhookPost == InitMobile /\ [][NextWebhookPost]_vars

-----------------------------------------------------------------------------
(* SessionService under concurrent requests: each handler split at its awaits *)

\* refreshAccessToken up to the awaited write: the token check, findOne, the
\* two checks on the row read and the minting of the new access token
RefreshLookup(p) ==
  /\ call[p] = Idle
  /\ \E refreshToken \in {s.refreshToken : s \in sessions}
                          \cup {s.accessToken : s \in sessions} :
       LET payload == verifyRefreshToken(refreshToken)
           found == findByRefreshToken(refreshToken)
       IN
       IF payload.outcome # "ok" THEN
         /\ last' = SessionFailure("refreshAccessToken", refreshToken, "token")
         /\ UNCHANGED <<call, issued>>
       ELSE IF found = {} \/ \E s \in found : ~s.isActive THEN
         /\ last' = SessionFailure("refreshAccessToken", refreshToken, "session")
         /\ UNCHANGED <<call, issued>>
       ELSE
         \E session \in found :
           IF now > session.refreshTokenExpiresAt THEN
             /\ call' = [call EXCEPT ![p] = [pc |-> "expire", session |-> session]]
             /\ last' = NoRes
             /\ UNCHANGED issued
           ELSE
             /\ issued.tokens < MaxTokens
             /\ call' = [call EXCEPT ![p] =
                           [pc |-> "update", session |-> session,
                            newAccessToken |->
                              generateAccessToken(payload.userId, issued.tokens + 1),
                            newAccessTokenExpiresAt |-> getAccessTokenExpiryTime]]
             /\ issued' = [issued EXCEPT !.tokens = @ + 1]
             /\ last' = NoRes
  /\ UNCHANGED <<now, users, emailVerifs, mobileVerifs, oauthStates, oauthLinks,
                 sessions, res, returned, minted, claimed>>

\* refreshAccessToken: update(session.id, {isActive: false}), then the throw
RefreshExpire(p) ==
  /\ call[p].pc = "expire"
  /\ sessions' = deactivateSession(call[p].session.id)
  /\ last' = SessionFailure("refreshAccessToken", call[p].session.refreshToken,
                            "refresh expired")
  /\ call' = [call EXCEPT ![p] = Idle]
  /\ UNCHANGED <<now, users, emailVerifs, mobileVerifs, oauthStates, oauthLinks,
                 issued, res, returned, minted, claimed>>

\* refreshAccessToken: updateAccessToken(session.id, ...), then the return
RefreshUpdate(p) ==
  /\ call[p].pc = "update"
  /\ sessions' = updateAccessToken(call[p].session.id, call[p].newAccessToken,
                                   call[p].newAccessTokenExpiresAt)
  /\ last' = [op |-> "refreshAccessToken", token |-> call[p].session.refreshToken,
              outcome |-> "ok", reason |-> "none",
              accessToken |-> call[p].newAccessToken,
              refreshToken |-> call[p].session.refreshToken]
  /\ call' = [call EXCEPT ![p] = Idle]
  /\ UNCHANGED <<now, users, emailVerifs, mobileVerifs, oauthStates, oauthLinks,
                 issued, res, returned, minted, claimed>>

\* invalidateSession up to the awaited write: findOne by access token
InvalidateFind(p) ==
  /\ call[p] = Idle
  /\ \E accessToken \in {s.accessToken : s \in sessions}
                         \cup {s.refreshToken : s \in sessions} :
       LET found == findByAccessToken(accessToken) IN
       IF found = {} THEN
         /\ last' = [op |-> "invalidateSession", token |-> accessToken,
                     outcome |-> "ok", reason |-> "none"]
         /\ UNCHANGED call
       ELSE
         \E session \in found :
           /\ call' = [call EXCEPT ![p] = [pc |-> "invalidate", session |-> session]]
           /\ last' = NoRes
  /\ UNCHANGED <<now, users, emailVerifs, mobileVerifs, oauthStates, oauthLinks,
                 sessions, issued, res, returned, minted, claimed>>

\* invalidateSession: update(session.id, {isActive: false})
InvalidateUpdate(p) ==
  /\ call[p].pc = "invalidate"
  /\ sessions' = deactivateSession(call[p].session.id)
  /\ last' = [op |-> "invalidateSession", token |-> call[p].session.accessToken,
              outcome |-> "ok", reason |-> "none"]
  /\ call' = [call EXCEPT ![p] = Idle]
  /\ UNCHANGED <<now, users, emailVerifs, mobileVerifs, oauthStates, oauthLinks,
                 issued, res, returned, minted, claimed>>

\* SessionRepository.invalidateAllByUserId(userId): one updateMany
invalidateAllByUserId(userId) ==
  {IF s.userId = userId /\ s.isActive THEN [s EXCEPT !.isActive = FALSE] ELSE s :
     s \in sessions}

\* invalidateAllUserSessions(userId)
InvalidateAllUserSessions ==
  /\ \E u \in users :
       /\ sessions' = invalidateAllByUserId(u.id)
       /\ last' = [op |-> "invalidateAllUserSessions", userId |-> u.id,
                   outcome |-> "ok",
                   count |-> Cardinality({s \in sessions : s.userId = u.id /\ s.isActive})]
  /\ UNCHANGED <<now, users, emailVerifs, mobileVerifs, oauthStates, oauthLinks,
                 issued, call, res, returned, minted, claimed>>

\* Two clients of the same sessions, their database calls interleaved
NextSessionRace ==
  \/ Elapse
  \/ CreateSession
  \/ InvalidateAllUserSessions
  \/ \E p \in Callers :
       \/ RefreshLookup(p)
       \/ RefreshExpire(p)
       \/ RefreshUpdate(p)
       \/ InvalidateFind(p)
       \/ InvalidateUpdate(p)

SpecSessionRace == Init /\ [][NextSessionRace]_vars

-----------------------------------------------------------------------------
(* OAuth callbacks for an identity that is already linked *)

\* The link an earlier Google callback stored for the user it created; the
\* Google account has changed its email address since
ExistingLink ==
  [userId |-> UserIds[2], provider |-> "GOOGLE",
   providerId |-> <<"sub", Emails[2]>>, email |-> Emails[3],
   accessToken |-> <<"access", 0>>]

InitLinks ==
  /\ now = 0
  /\ users = {CompletedUser,
              createFromOAuth(ExistingLink.userId, ExistingLink.email, TRUE,
                              "SET_PASSWORD")}
  /\ emailVerifs = {}
  /\ mobileVerifs = {}
  /\ oauthStates = {}
  /\ oauthLinks = {ExistingLink}
  /\ issued = [states |-> 0, users |-> 2, mobiles |-> 0, tokens |-> 0]
  /\ sessions = {}
  /\ call = [p \in Callers |-> Idle]
  /\ res = [p \in Callers |-> NoRes]
  /\ returned = [n \in 1..MaxStates |-> 0]
  /\ minted = {}
  /\ claimed = {}
  /\ last = NoRes

SpecLinks == InitLinks /\ [][NextOAuth]_vars

-----------------------------------------------------------------------------
(* EmailVerificationService.verifyOtp under concurrent requests: the handler *)
(* split at its awaited writes                                              *)

\* verifyOtp up to the first awaited write: findLatestByUserId, the two
\* throws on the row read, and the comparison of the OTP with the row's hash
VerifyOtpFind(p) ==
  /\ call[p] = Idle
  /\ \E u \in users, otp \in Otps :
       LET found == findLatestEmailByUserId(u.id) IN
       IF found = {} THEN
         /\ last' = VerifyOtpResult(u.id, otp, "BadRequest",
                                    "no verification request")
         /\ UNCHANGED call
       ELSE
         \E verification \in found :
           IF validateOtpAttempt(verification) # "ok" THEN
             /\ last' = VerifyOtpResult(u.id, otp, "BadRequest",
                                        validateOtpAttempt(verification))
             /\ UNCHANGED call
           ELSE
             /\ call' = [call EXCEPT ![p] =
                           [pc |-> IF compareOtp(otp, verification.otp)
                                   THEN "mark" ELSE "increment",
                            verification |-> verification,
                            userId |-> u.id, otp |-> otp]]
             /\ last' = NoRes
  /\ UNCHANGED <<now, users, emailVerifs, mobileVerifs, oauthStates, oauthLinks,
                 sessions, issued, res, returned, minted, claimed>>

\* verifyOtp after a mismatch: incrementAttempts(verification.id), then the
\* UnauthorizedException
VerifyOtpIncrement(p) ==
  /\ call[p].pc = "increment"
  /\ emailVerifs' = incrementAttempts(call[p].verification.id)
  /\ last' = VerifyOtpResult(call[p].userId, call[p].otp, "Unauthorized",
                             "invalid OTP")
  /\ call' = [call EXCEPT ![p] = Idle]
  /\ UNCHANGED <<now, users, mobileVerifs, oauthStates, oauthLinks, sessions,
                 issued, res, returned, minted, claimed>>

\* verifyOtp after a match: markAsVerified(verification.id)
VerifyOtpMark(p) ==
  /\ call[p].pc = "mark"
  /\ emailVerifs' = markEmailAsVerified(call[p].verification.id)
  /\ call' = [call EXCEPT ![p].pc = "user"]
  /\ last' = NoRes
  /\ UNCHANGED <<now, users, mobileVerifs, oauthStates, oauthLinks, sessions,
                 issued, res, returned, minted, claimed>>

\* verifyOtp: userService.markEmailVerified and userService.update, which
\* write the same User row and no EmailVerification row, then the return
VerifyOtpUser(p) ==
  /\ call[p].pc = "user"
  /\ users' = UpdateUser(markEmailVerified(users, call[p].userId), call[p].userId,
                         [onboardingStep |-> "MOBILE_VERIFICATION",
                          accountStatus |-> "PENDING_MOBILE"])
  /\ last' = VerifyOtpResult(call[p].userId, call[p].otp, "ok", "none")
  /\ call' = [call EXCEPT ![p] = Idle]
  /\ UNCHANGED <<now, emailVerifs, mobileVerifs, oauthStates, oauthLinks,
                 sessions, issued, res, returned, minted, claimed>>

\* Registrations, each followed by verifyOtp requests that overlap one
\* another
SpecOtpRace ==
  Init /\ [][(Register /\ \A p \in Callers : call[p] = Idle)
             \/ \E p \in Callers :
                  \/ VerifyOtpFind(p)
                  \/ VerifyOtpIncrement(p)
                  \/ VerifyOtpMark(p)
                  \/ VerifyOtpUser(p)]_vars

-----------------------------------------------------------------------------
\* C1: when two validateAndConsumeState calls for the same stored, unexpired,
\* correctly signed token interleave their lookup and delete steps, at most
\* one of them returns the payload and the other one fails.
C1_AtMostOneConcurrentConsumer ==
  \A p, q \in Callers :
    (/\ p # q
     /\ res[p].op = "validateAndConsumeState"
     /\ res[q].op = "validateAndConsumeState"
     /\ res[p].token = res[q].token
     /\ ~res[p].late /\ ~res[q].late
     /\ res[p].outcome = "ok")
    => res[q].outcome \in {"pending", "Unauthorized", "RecordNotFound"}
         /\ (call[q] = Idle => res[q].outcome # "pending")
         /\ returned[res[p].token[1]] = 1

\* Both callers had looked the token up before either deleted it; one
\* returned the payload and the other failed on its delete.
C1_Witness ==
  \E p, q \in Callers :
    /\ p # q
    /\ res[p].op = "validateAndConsumeState"
    /\ res[q].op = "validateAndConsumeState"
    /\ res[p].token = res[q].token
    /\ ~res[p].late /\ ~res[q].late
    /\ res[p].outcome = "ok"
    /\ res[q].outcome = "RecordNotFound"

\* C2: for a stored, unexpired, correctly signed token the first
\* validateAndConsumeState returns the {provider, userId, codeVerifier} it
\* was generated with and deletes the row; every call that begins after
\* that fails with Unauthorized.
C2_OneTimeUse ==
  /\ \A p \in Callers :
       (res[p].op = "validateAndConsumeState" /\ res[p].outcome = "ok")
       => /\ findByToken(res[p].token) = {}
          /\ \E m \in minted : /\ m.stateToken = res[p].token
                               /\ res[p].data = StateData(m)
  /\ \A p \in Callers :
       (/\ res[p].op = "validateAndConsumeState"
        /\ res[p].late
        /\ verifyStateToken(res[p].token) = "true")
       => res[p].outcome = "Unauthorized"

\* A correctly signed token is presented again after its payload was returned.
C2_Witness ==
  \E p \in Callers :
    /\ res[p].op = "validateAndConsumeState"
    /\ res[p].late
    /\ verifyStateToken(res[p].token) = "true"
    /\ res[p].outcome = "Unauthorized"
    /\ returned[res[p].token[1]] = 1

\* C3: no two distinct users both hold the same phone number as verified:
\* once a phone is verified for one user, verifyFromWebhook for another
\* user's pending verification with that number never returns true, whether
\* the webhook delivers the number with or without a leading '+'.
C3_PhoneClaimExclusive ==
  /\ \A c \in claimed : ~c.taken
  /\ \A u, w \in users :
       (u.id # w.id /\ u.phoneVerified /\ w.phoneVerified) => u.phone # w.phone

\* C4: when two verifyFromWebhook calls carrying the same phone number (in
\* the '+' form the uniqueness check compares), for pending verifications of
\* two different users, interleave their uniqueness check and verified-write
\* steps, at most one of them returns true and at most one of the two users
\* ends with that phone verified.
C4_ConcurrentWebhooksOneWinner ==
  /\ \A c, d \in claimed :
       (/\ c.userId # d.userId
        /\ c.phoneNumber = d.phoneNumber
        /\ startsWithPlus(c.phoneNumber)) => (c.taken \/ d.taken)
  /\ \A u, w \in users :
       (/\ u.id # w.id /\ u.phoneVerified /\ w.phoneVerified
        /\ \A c \in claimed : startsWithPlus(c.phoneNumber) /\ ~c.taken)
       => u.phone # w.phone

\* C5: handleCallback(provider, code, state) with a state that is stored,
\* correctly signed and unexpired but was generated for a different provider
\* fails with Unauthorized (provider mismatch) before any code exchange, and
\* no User row and no OAuthProvider link is created or changed.
C5_ProviderMismatchRejected ==
  [][\A r \in oauthStates :
       (/\ last'.op = "handleCallback"
        /\ last'.state = r
        /\ ~(now > r.expiresAt)
        /\ r.provider # last'.provider)
       => /\ last'.outcome = "Unauthorized"
          /\ last'.reason = "Provider mismatch"
          /\ ~last'.exchanged
          /\ users' = users
          /\ oauthLinks' = oauthLinks]_vars

\* A callback consumed an unexpired state of the other provider and was
\* rejected for the mismatch.
C5_Witness ==
  /\ last.op = "handleCallback"
  /\ last.state \in minted
  /\ last.state \notin oauthStates
  /\ ~(now > last.state.expiresAt)
  /\ last.state.provider # last.provider
  /\ last.reason = "Provider mismatch"

\* C6: register for an existing user whose onboarding is incomplete and who
\* has emailVerified or phoneVerified returns an onboarding token only if the
\* supplied password matches the stored hash; in every other case, with or
\* without a stored hash, it fails with Unauthorized, issues no token and
\* sends no OTP.
C6_ResumeRequiresPassword ==
  [][\A u \in users :
       (/\ last'.op = "register"
        /\ last'.email = u.email
        /\ ~u.onboardingComplete
        /\ (u.emailVerified \/ u.phoneVerified))
       => /\ last'.outcome = "ok" => comparePassword(last'.password, u.passwordHash)
          /\ ~comparePassword(last'.password, u.passwordHash)
               => /\ last'.outcome = "Unauthorized"
                  /\ emailVerifs' = emailVerifs]_vars

C8_CompletedUserConflict ==
  [][\A u \in users :
       (/\ last'.op = "register"
        /\ last'.email = u.email
        /\ u.onboardingComplete)
       => /\ last'.outcome = "Conflict"
          /\ users' = users
          /\ emailVerifs' = emailVerifs
          /\ mobileVerifs' = mobileVerifs
          /\ oauthStates' = oauthStates
          /\ oauthLinks' = oauthLinks]_vars

C10_VerifyOtpAdvances ==
  [][\A u \in users, v \in emailVerifs :
       (/\ last'.op = "verifyOtp"
        /\ last'.userId = u.id
        /\ v \in findLatestEmailByUserId(u.id)
        /\ ~(now > v.expiresAt)
        /\ v.attempts < 3
        /\ compareOtp(last'.otp, v.otp))
       => /\ last'.outcome = "ok"
          /\ \E w \in emailVerifs' : w.id = v.id /\ w.isVerified
          /\ \E x \in users' :
               /\ x.id = u.id
               /\ x.emailVerified
               /\ x.onboardingStep = "MOBILE_VERIFICATION"
               /\ x.accountStatus = "PENDING_MOBILE"]_vars

\* verifyOtp succeeded on a row that already had two failed attempts, at the
\* last instant before the row expires.
C10_Witness ==
  /\ last.op = "verifyOtp"
  /\ last.outcome = "ok"
  /\ \E v \in emailVerifs :
       /\ v.userId = last.userId
       /\ v.isVerified
       /\ v.attempts = 2
       /\ now = v.expiresAt
  /\ \E x \in users :
       /\ x.id = last.userId
       /\ x.emailVerified
       /\ x.onboardingStep = "MOBILE_VERIFICATION"
       /\ x.accountStatus = "PENDING_MOBILE"

\* C11 (as claimed): after verifyOtp has succeeded for a user's OTP, a further
\* verifyOtp call for the same user with the same OTP fails with the
\* "already verified" condition and changes nothing.
C11_SecondVerifyAlreadyVerified ==
  [][\A v \in emailVerifs :
       (/\ last'.op = "verifyOtp"
        /\ v.userId = last'.userId
        /\ v.isVerified
        /\ compareOtp(last'.otp, v.otp))
       => /\ last'.outcome = "BadRequest"
          /\ last'.reason = "already verified"
          /\ users' = users
          /\ emailVerifs' = emailVerifs]_vars

\* C11: for any issued email OTP, verifyOtp with the correct OTP succeeds at
\* most once: after it has succeeded, a further verifyOtp call for the same
\* user with the same OTP fails with BadRequest because no unverified
\* verification is found, and changes nothing.
C11_SecondVerifyNotFound ==
  [][\A v \in emailVerifs :
       (/\ last'.op = "verifyOtp"
        /\ v.userId = last'.userId
        /\ v.isVerified
        /\ compareOtp(last'.otp, v.otp))
       => /\ last'.outcome = "BadRequest"
          /\ last'.reason = "no verification request"
          /\ users' = users
          /\ emailVerifs' = emailVerifs]_vars

\* verifyOtp was called again with the OTP of the user's verified row, while
\* that row is still unexpired, and was rejected.
C11_Witness ==
  /\ last.op = "verifyOtp"
  /\ last.outcome = "BadRequest"
  /\ \E v \in emailVerifs :
       /\ v.userId = last.userId
       /\ v.isVerified
       /\ compareOtp(last.otp, v.otp)
       /\ ~isOtpExpired(v.expiresAt)
  /\ \E u \in users : u.id = last.userId /\ u.onboardingStep = "MOBILE_VERIFICATION"

\* C12 (as claimed): after 3 failed verifyOtp attempts against the same
\* EmailVerification row, every further verifyOtp attempt against that row,
\* including one with the correct OTP, fails with attempts-exceeded and does
\* not verify the email or advance the onboarding step.
C12_ExhaustedAlwaysAttemptsExceeded ==
  [][\A v \in emailVerifs :
       (/\ last'.op = "verifyOtp"
        /\ v \in findLatestEmailByUserId(last'.userId)
        /\ v.attempts >= 3)
       => /\ last'.outcome = "BadRequest"
          /\ last'.reason = "attempts exceeded"
          /\ users' = users
          /\ emailVerifs' = emailVerifs]_vars

\* C12: after 3 failed verifyOtp attempts against the same EmailVerification
\* row, every further verifyOtp attempt against that row, including one with
\* the correct OTP, fails with BadRequest, with attempts-exceeded while the
\* row is unexpired and with expired once it has expired, and does not verify
\* the email, count a further attempt or advance the onboarding step.
C12_ExhaustedNeverVerifies ==
  [][\A v \in emailVerifs :
       (/\ last'.op = "verifyOtp"
        /\ v \in findLatestEmailByUserId(last'.userId)
        /\ v.attempts >= 3)
       => /\ last'.outcome = "BadRequest"
          /\ last'.reason = IF now > v.expiresAt THEN "expired" ELSE "attempts exceeded"
          /\ users' = users
          /\ emailVerifs' = emailVerifs]_vars

\* The correct OTP was presented for an unexpired row that has 3 failed
\* attempts and was rejected; the user is still in the email step.
C12_Witness ==
  /\ last.op = "verifyOtp"
  /\ last.reason = "attempts exceeded"
  /\ \E v \in emailVerifs :
       /\ v.userId = last.userId
       /\ v.attempts = 3
       /\ ~v.isVerified
       /\ compareOtp(last.otp, v.otp)
       /\ ~(now > v.expiresAt)
  /\ \E u \in users :
       u.id = last.userId /\ ~u.emailVerified /\ u.onboardingStep = "EMAIL_VERIFICATION"

\* C13: verifyOtp against the user's latest unverified EmailVerification whose
\* expiresAt is earlier than the current time fails with the "expired"
\* condition whether or not the OTP is correct, without incrementing attempts
\* or changing the user; a call made before expiresAt is not rejected as
\* expired and, the attempt limit not being reached, is decided by the hash
\* comparison (success on a match, Unauthorized and one more attempt otherwise).
C13_ExpiryBoundary ==
  [][\A v \in emailVerifs :
       (/\ last'.op = "verifyOtp"
        /\ v \in findLatestEmailByUserId(last'.userId))
       => /\ v.expiresAt < now
               => /\ last'.outcome = "BadRequest"
                  /\ last'.reason = "expired"
                  /\ emailVerifs' = emailVerifs
                  /\ users' = users
          /\ now < v.expiresAt
               => /\ last'.reason # "expired"
                  /\ v.attempts < 3
                       => IF compareOtp(last'.otp, v.otp)
                          THEN /\ last'.outcome = "ok"
                               /\ \E w \in emailVerifs' : w.id = v.id /\ w.isVerified
                          ELSE /\ last'.outcome = "Unauthorized"
                               /\ \E w \in emailVerifs' :
                                    w.id = v.id /\ w.attempts = v.attempts + 1
                               /\ users' = users]_vars

\* The correct OTP was presented after the row's expiresAt and was rejected
\* as expired; the row has no failed attempt and is still unverified.
C13_Witness ==
  /\ last.op = "verifyOtp"
  /\ last.reason = "expired"
  /\ \E v \in emailVerifs :
       /\ v.userId = last.userId
       /\ ~v.isVerified
       /\ v.attempts = 0
       /\ compareOtp(last.otp, v.otp)
       /\ v.expiresAt < now
  /\ \E u \in users : u.id = last.userId /\ ~u.emailVerified

\* C14: after any successful re-send of the email OTP (resendOtp, or register
\* on the resume path while the user is in the EMAIL_VERIFICATION step) the
\* user has exactly one EmailVerification row, the one just created,
\* unverified, with attempts 0 and an expiry 5 minutes after the re-send: all
\* earlier rows of the user are gone; and whenever verifyOtp succeeds, the
\* OTP matched the user's only row, so no OTP issued before the latest
\* re-send can succeed.
C14_ResendSupersedes ==
  [][/\ \A u \in users :
          (/\ \/ last'.op = "resendOtp" /\ last'.userId = u.id
              \/ /\ last'.op = "register"
                 /\ last'.path = "resume"
                 /\ last'.email = u.email
                 /\ u.onboardingStep = "EMAIL_VERIFICATION"
           /\ last'.outcome = "ok")
          => \E w \in emailVerifs' :
               /\ {v \in emailVerifs' : v.userId = u.id} = {w}
               /\ ~w.isVerified
               /\ w.attempts = 0
               /\ w.createdAt = now
               /\ w.expiresAt = now + 5
               /\ {v \in emailVerifs' : v.userId # u.id}
                    = {v \in emailVerifs : v.userId # u.id}
     /\ (last'.op = "verifyOtp" /\ last'.outcome = "ok")
          => \E w \in emailVerifs :
               /\ {v \in emailVerifs : v.userId = last'.userId} = {w}
               /\ compareOtp(last'.otp, w.otp)]_vars

\* A re-send has replaced a row issued at an earlier time: the user's only
\* row was created now, after the user's registration, and the caller's
\* previous outcome is the re-send.
C14_Witness ==
  /\ last.op \in {"resendOtp", "register"}
  /\ last.outcome = "ok"
  /\ last.op = "register" => last.path = "resume"
  /\ now > 0
  /\ \E u \in users :
       /\ u.onboardingStep = "EMAIL_VERIFICATION"
       /\ last.op = "resendOtp" => last.userId = u.id
       /\ last.op = "register" => last.email = u.email
       /\ \E w \in emailVerifs :
            /\ {v \in emailVerifs : v.userId = u.id} = {w}
            /\ w.createdAt = now
            /\ w.attempts = 0

C16_WebhookRejectsSilently ==
  [][\A p \in Callers :
       /\ (call[p] = Idle /\ call'[p] # Idle)
            => /\ call'[p].verification \in mobileVerifs
               /\ ~call'[p].verification.isVerified
               /\ ~(call'[p].verification.expiresAt < now)
               /\ call'[p].verification.attempts < 5
       /\ (/\ call[p].pc = "unique"
           /\ call'[p] # call[p]
           /\ \E u \in users :
                /\ u.id # call[p].verification.userId
                /\ u.phoneVerified
                /\ u.phone = normalizePhoneNumber(call[p].phoneNumber))
            => /\ last'.op = "verifyFromWebhook"
               /\ last'.outcome = "false"
               /\ call'[p] = Idle
               /\ users' = users
               /\ mobileVerifs' = mobileVerifs
       /\ (last'.op = "verifyFromWebhook" /\ last'.outcome = "false")
            => users' = users /\ mobileVerifs' = mobileVerifs]_vars

\* C17: when verifyFromWebhook returns true, the verification row found by
\* the token is marked verified with the phone in leading-'+' form (the
\* delivered digits, a '+' put in front when there was none) and the country
\* code derived from it, and the owning user's phone and phoneCountry are set
\* to those same values with phoneVerified true; the call's writes change no
\* other user and no other verification row.
C17_WebhookSuccessWrites ==
  [][\A p \in Callers :
       /\ (call[p].pc = "mark" /\ call'[p].pc = "user")
            => /\ users' = users
               /\ Cardinality(mobileVerifs') = Cardinality(mobileVerifs)
               /\ \A r \in mobileVerifs :
                    r.id # call[p].verification.id => r \in mobileVerifs'
       /\ (call[p].pc = "user" /\ call'[p] = Idle)
            => LET v == call[p].verification
                   raw == call[p].phoneNumber
                   phone == IF Head(raw) = "+" THEN raw ELSE <<"+">> \o raw
                   country == extractCountryCode(phone)
               IN /\ last'.op = "verifyFromWebhook"
                  /\ last'.outcome = "true"
                  /\ mobileVerifs' = mobileVerifs
                  /\ \E w \in mobileVerifs' :
                       /\ w.id = v.id
                       /\ w.qrVerificationId = v.qrVerificationId
                       /\ w.isVerified
                       /\ w.phone = phone
                       /\ w.phoneCountry = country
                  /\ \E x \in users' :
                       /\ x.id = v.userId
                       /\ x.phoneVerified
                       /\ x.phone = phone
                       /\ x.phoneCountry = country
                  /\ Cardinality(users') = Cardinality(users)
                  /\ \A u \in users : u.id # v.userId => u \in users']_vars

\* A webhook that delivered the number without '+' has returned true: row
\* and user hold "+155" with the country of dialing code 1.
C17_Witness ==
  /\ last.op = "verifyFromWebhook"
  /\ last.outcome = "true"
  /\ \E c \in claimed : c.phoneNumber = <<"1", "5", "5">>
  /\ \E x \in users, w \in mobileVerifs :
       /\ w.userId = x.id
       /\ w.isVerified
       /\ w.phone = <<"+", "1", "5", "5">>
       /\ w.phoneCountry = "US"
       /\ x.phoneVerified
       /\ x.phone = w.phone
       /\ x.phoneCountry = w.phoneCountry

\* C18: a successful setPassword(userId, password) stores a hash of the
\* password on the user and advances the user's onboardingStep from
\* SET_PASSWORD to MOBILE_VERIFICATION.
C18_SetPasswordPersists ==
  [][\A u \in users :
       (/\ last'.op = "setPassword"
        /\ last'.userId = u.id
        /\ last'.outcome = "ok")
       => /\ u.onboardingStep = "SET_PASSWORD"
          /\ \E x \in users' :
               /\ x.id = u.id
               /\ comparePassword(last'.password, x.passwordHash)
               /\ x.onboardingStep = "MOBILE_VERIFICATION"]_vars

\* C19: setPassword fails with BadRequest and changes no stored state unless
\* the user's onboardingStep is exactly SET_PASSWORD and the user has no
\* password hash.
C19_SetPasswordGuard ==
  [][\A u \in users :
       (/\ last'.op = "setPassword"
        /\ last'.userId = u.id
        /\ ~(u.onboardingStep = "SET_PASSWORD" /\ u.passwordHash = NullHash))
       => /\ last'.outcome = "BadRequest"
          /\ users' = users
          /\ emailVerifs' = emailVerifs
          /\ mobileVerifs' = mobileVerifs
          /\ oauthStates' = oauthStates
          /\ oauthLinks' = oauthLinks]_vars

\* setPassword was rejected for a user who registered with a password and is
\* past email verification; nothing about the user changed.
C19_Witness ==
  /\ last.op = "setPassword"
  /\ last.outcome = "BadRequest"
  /\ \E u \in users :
       /\ u.id = last.userId
       /\ u.onboardingStep = "MOBILE_VERIFICATION"
       /\ u.passwordHash # NullHash
       /\ ~comparePassword(last.password, u.passwordHash)

\* C20: every user can reach onboarding complete: once email verification has
\* succeeded and the phone has been verified through verifyFromWebhook, the
\* user's onboardingStep is COMPLETE and onboardingComplete is true.
C20_VerifiedUserCompletes ==
  \A u \in users :
    (/\ u.emailVerified
     /\ u.phoneVerified
     /\ \E c \in claimed : c.userId = u.id)
    => (u.onboardingStep = "COMPLETE" /\ u.onboardingComplete)

\* C21: in every state reachable through register, verifyOtp, resendOtp,
\* setPassword, the mobile verification operations, handleCallback and
\* deactivate, each user satisfies: onboardingComplete implies emailVerified,
\* and accountStatus = ACTIVE implies onboardingComplete.
C21_UserInvariant ==
  \A u \in users :
    /\ u.onboardingComplete => u.emailVerified
    /\ u.accountStatus = "ACTIVE" => u.onboardingComplete

\* The completed user has just been deactivated, next to a second user who
\* has verified email and phone and is still pending.
C21_Witness ==
  /\ last.op = "deactivate"
  /\ last.outcome = "ok"
  /\ \E u \in users :
       /\ u.id = last.userId
       /\ u.onboardingComplete
       /\ u.accountStatus = "DEACTIVATED"
  /\ \E w \in users :
       /\ w.emailVerified
       /\ w.phoneVerified
       /\ ~w.onboardingComplete
       /\ w.accountStatus = "PENDING_MOBILE"

\* C22: handleCallback creates a User row only when the consumed state
\* carries no linking userId and no user with the profile's email exists; the
\* created user has onboardingStep SET_PASSWORD, emailVerified true and no
\* password hash, and the result has isNewUser true. When the state carries a
\* linking userId the callback resolves to that existing user and creates no
\* user.
C22_CallbackCreatesUser ==
  [][last'.op = "handleCallback" =>
       /\ users' # users =>
            /\ last'.outcome = "ok"
            /\ last'.isNewUser
            /\ last'.state.userId = None
            /\ \E x \in users' :
                 /\ users' = users \cup {x}
                 /\ \A u \in users : u.email # x.email /\ u.id # x.id
                 /\ x.id = last'.userId
                 /\ x.onboardingStep = "SET_PASSWORD"
                 /\ x.emailVerified
                 /\ x.passwordHash = NullHash
       /\ (last'.outcome = "ok" /\ last'.isNewUser) => users' # users
       /\ (last'.outcome = "ok" /\ last'.state.userId # None) =>
            /\ users' = users
            /\ last'.userId = last'.state.userId
            /\ ~last'.isNewUser
            /\ \E u \in users : u.id = last'.userId]_vars

\* A callback whose state carried no linking userId has created the user of
\* a profile whose email nobody had.
C22_Witness ==
  /\ last.op = "handleCallback"
  /\ last.outcome = "ok"
  /\ last.isNewUser
  /\ last.state.userId = None
  /\ \E x \in users :
       /\ x.id = last.userId
       /\ x.email = "b@x.com"
       /\ x.onboardingStep = "SET_PASSWORD"
       /\ x.emailVerified
       /\ x.passwordHash = NullHash

\* C23: handleCallback whose state carries no linking userId, when a user
\* with the profile's email already exists: fails with Conflict and creates
\* no OAuthProvider link if that user's onboardingComplete is true; otherwise
\* it returns an onboarding token for that existing user with isNewUser false
\* and creates no user.
C23_CallbackExistingEmail ==
  [][(/\ last'.op = "handleCallback"
      /\ last'.exchanged
      /\ last'.outcome # "ProviderError"
      /\ last'.state.userId = None)
     => LET existing == {u \in users : u.email = last'.email} IN
        existing # {} =>
          IF \E u \in existing : u.onboardingComplete
          THEN /\ last'.outcome = "Conflict"
               /\ oauthLinks' = oauthLinks
               /\ users' = users
          ELSE /\ last'.outcome = "ok"
               /\ ~last'.isNewUser
               /\ users' = users
               /\ \E u \in existing :
                    /\ last'.userId = u.id
                    /\ last'.onboardingToken = generateOnboardingToken(u.id)]_vars

\* A callback without linking userId has resumed a user who had registered
\* with a password and not completed onboarding.
C23_Witness ==
  /\ last.op = "handleCallback"
  /\ last.outcome = "ok"
  /\ ~last.isNewUser
  /\ last.state.userId = None
  /\ \E u \in users :
       /\ u.id = last.userId
       /\ u.email = last.email
       /\ u.passwordHash # NullHash
       /\ ~u.onboardingComplete
  /\ \E l \in oauthLinks : l.userId = last.userId

\* C24: a successful refreshAccessToken(refreshToken) returns the same refresh
\* token it was given, replaces only the session's stored access token and
\* access-token expiry, and leaves the session's refresh token, refresh
\* expiry, isActive and userId unchanged; any number of refreshes before the
\* stored refresh expiry succeed with that same refresh token.
C24_RefreshKeepsRefreshToken ==
  [][\A s \in sessions :
       (last'.op = "refreshAccessToken" /\ last'.token = s.refreshToken)
       => /\ (s.isActive /\ ~(now > s.refreshTokenExpiresAt))
               => last'.outcome = "ok"
          /\ last'.outcome = "ok" =>
               /\ last'.refreshToken = last'.token
               /\ \E x \in sessions' :
                    /\ x.id = s.id
                    /\ x.accessToken = last'.accessToken
                    /\ x.accessTokenExpiresAt = now + ACCESS_EXPIRY_MINUTES
                    /\ x.refreshToken = s.refreshToken
                    /\ x.refreshTokenExpiresAt = s.refreshTokenExpiresAt
                    /\ x.isActive = s.isActive
                    /\ x.userId = s.userId
               /\ Cardinality(sessions') = Cardinality(sessions)
               /\ \A o \in sessions : o.id # s.id => o \in sessions'
               /\ users' = users]_vars

\* The same refresh token has been used for a second successful refresh,
\* some time after the session was created.
C24_Witness ==
  /\ last.op = "refreshAccessToken"
  /\ last.outcome = "ok"
  /\ last.refreshToken = last.token
  /\ \E s \in sessions :
       /\ s.refreshToken = last.token
       /\ s.accessToken = last.accessToken
       /\ s.accessToken.n >= s.id + 3
       /\ s.isActive
       /\ s.accessTokenExpiresAt > ACCESS_EXPIRY_MINUTES
       /\ s.refreshTokenExpiresAt = REFRESH_EXPIRY_MINUTES

\* C25: refreshAccessToken fails with Unauthorized and stores no new access
\* token when no session holds the refresh token or the session is inactive;
\* when the session is active but past its stored refresh expiry it fails
\* with Unauthorized and sets isActive to false, so every later refresh with
\* that token also fails.
C25_RefreshRejections ==
  [][/\ \A s \in sessions, x \in sessions' :
          (x.id = s.id /\ ~s.isActive) => ~x.isActive
     /\ last'.op = "refreshAccessToken" =>
       /\ (\/ \A s \in sessions : s.refreshToken # last'.token
           \/ \E s \in sessions : s.refreshToken = last'.token /\ ~s.isActive)
            => /\ last'.outcome = "Unauthorized"
               /\ sessions' = sessions
       /\ \A s \in sessions :
            (/\ s.refreshToken = last'.token
             /\ s.isActive
             /\ now > s.refreshTokenExpiresAt)
            => /\ last'.outcome = "Unauthorized"
               /\ sessions' = (sessions \ {s}) \cup {[s EXCEPT !.isActive = FALSE]}]_vars

\* A refresh with the token of an inactive session past its refresh expiry
\* has failed for want of an active session.
C25_Witness ==
  /\ last.op = "refreshAccessToken"
  /\ last.outcome = "Unauthorized"
  /\ last.reason = "session"
  /\ \E s \in sessions :
       /\ s.refreshToken = last.token
       /\ ~s.isActive
       /\ now > s.refreshTokenExpiresAt
       /\ s.accessTokenExpiresAt = ACCESS_EXPIRY_MINUTES

\* C26: invalidateSession(accessToken) sets isActive to false on the session
\* that stores that access token, after which validateAccessToken(accessToken)
\* and refreshAccessToken with that session's refresh token fail with
\* Unauthorized; when no session stores the token it returns without error
\* and changes nothing, so repeating the call has no further effect.
C26_InvalidateSession ==
  [][/\ last'.op = "invalidateSession" =>
          /\ last'.outcome = "ok"
          /\ sessions' = {IF s.accessToken = last'.token
                          THEN [s EXCEPT !.isActive = FALSE] ELSE s : s \in sessions}
          /\ (\A s \in sessions : s.accessToken # last'.token \/ ~s.isActive)
               => sessions' = sessions
     /\ \A s \in sessions :
          ~s.isActive =>
            /\ \E x \in sessions' :
                 /\ x.id = s.id
                 /\ ~x.isActive
                 /\ x.accessToken = s.accessToken
                 /\ x.refreshToken = s.refreshToken
            /\ (last'.op = "validateAccessToken" /\ last'.token = s.accessToken)
                 => last'.outcome = "Unauthorized"
            /\ (last'.op = "refreshAccessToken" /\ last'.token = s.refreshToken)
                 => last'.outcome = "Unauthorized"]_vars

\* validateAccessToken has rejected the access token of a session that
\* invalidateSession made inactive while both its tokens were unexpired.
C26_Witness ==
  /\ last.op = "validateAccessToken"
  /\ last.outcome = "Unauthorized"
  /\ \E s \in sessions :
       /\ s.accessToken = last.token
       /\ ~s.isActive
       /\ ~(now > s.accessTokenExpiresAt)
       /\ ~(now > s.refreshTokenExpiresAt)

\* C27: token audiences are isolated: a token minted with type onboarding is
\* rejected wherever an access token is required, and a token minted with
\* type access or refresh is rejected where an onboarding token (or the other
\* audience) is required; only a token whose type claim matches the expected
\* audience is accepted.
C27_AudienceIsolation ==
  [][/\ last'.op = "validate" =>
          /\ last'.token.type # "ACCESS" => last'.outcome = "Unauthorized"
          /\ last'.outcome = "ok" => last'.token.type = "ACCESS"
     /\ last'.op = "verifyOnboardingToken" =>
          /\ last'.token.type # "ONBOARDING" => last'.outcome = "Unauthorized"
          /\ last'.outcome = "ok" => last'.token.type = "ONBOARDING"
     /\ last'.op = "refreshAccessToken" =>
          /\ last'.token.type # "REFRESH" =>
               (last'.outcome = "Unauthorized" /\ sessions' = sessions)
          /\ last'.outcome = "ok" => last'.token.type = "REFRESH"]_vars

\* A validly signed onboarding token of an active user has been rejected on
\* a route that requires an access token, while a session of that user holds
\* an access token.
C27_Witness ==
  /\ last.op = "validate"
  /\ last.outcome = "Unauthorized"
  /\ last.reason = "type"
  /\ last.token.type = "ONBOARDING"
  /\ \E s \in sessions, u \in users :
       /\ s.userId = last.token.userId
       /\ s.isActive
       /\ u.id = s.userId
       /\ u.accountStatus = "ACTIVE"

\* C30: for every message text that contains, anywhere in free text, a token
\* of the form VER, an optional hyphen, then exactly 6 alphanumeric
\* characters in any letter case, extractVerificationToken returns that token
\* (the leftmost one) normalized to VER followed by the 6 characters in upper
\* case with the hyphen removed; for text containing no such token it returns
\* null.
C30_ExtractVerificationToken ==
  [][last'.op = "extractVerificationToken" =>
       LET t == last'.text
           letter(c, u, l) == c = u \/ c = l
           alphanumeric(c) ==
             \/ c \in DecimalDigits
             \/ \E k \in 1..26 : c = UpperCaseLetters[k] \/ c = LowerCaseLetters[k]
           upper(c) ==
             IF \E k \in 1..26 : c = LowerCaseLetters[k]
             THEN UpperCaseLetters[CHOOSE k \in 1..26 : c = LowerCaseLetters[k]]
             ELSE c
           \* a token begins at i and its 6 characters at i + 3 + h
           tokenAt(i, h) ==
             /\ i + 8 + h <= Len(t)
             /\ letter(t[i], "V", "v")
             /\ letter(t[i + 1], "E", "e")
             /\ letter(t[i + 2], "R", "r")
             /\ h = 1 => t[i + 3] = "-"
             /\ \A k \in 0..5 : alphanumeric(t[i + 3 + h + k])
           tokens == {p \in (1..Len(t)) \X {0, 1} : tokenAt(p[1], p[2])}
       IN /\ tokens = {} => last'.result = Null
          /\ \A p \in tokens :
               (\A q \in tokens : p[1] <= q[1])
               => last'.result =
                    <<"V", "E", "R">> \o
                      [k \in 1..6 |-> upper(t[p[1] + 3 + p[2] + k - 1])]]_vars

\* A token written in lower case with a hyphen, inside a sentence, has been
\* returned in upper case without the hyphen.
C30_Witness ==
  /\ last.op = "extractVerificationToken"
  /\ last.text = <<"m", "y", " ", "v", "e", "r", "-", "a", "b", "c", "1", "2", "3", " ", "o", "k">>
  /\ last.result = <<"V", "E", "R", "A", "B", "C", "1", "2", "3">>

\* C28: for a webhook POST with a valid signature, handleWebhook returns
\* {status: 'ok'} without waiting for message processing, and a failure or
\* exception while processing the messages (including verifyFromWebhook
\* throwing) is logged only: it never reaches the webhook response and
\* triggers no retry.
C28_WebhookFailuresAbsorbed ==
  [][\A p \in Callers :
       /\ (/\ last'.op = "handleWebhook"
           /\ last'.outcome = "ok"
           /\ call[p] = Idle
           /\ call'[p] # Idle)
            => /\ res'[p] = [op |-> "handleWebhook", outcome |-> "ok"]
               /\ call'[p].pc = "process"
               /\ users' = users
               /\ mobileVerifs' = mobileVerifs
       /\ call[p] # Idle
            => /\ res[p] = [op |-> "handleWebhook", outcome |-> "ok"]
               /\ res'[p] = res[p]
       /\ (/\ call[p] # Idle
           /\ call'[p] # call[p]
           /\ last'.op = "verifyFromWebhook"
           /\ last'.outcome # "true")
            => call'[p] = Idle]_vars

\* The processing of an acknowledged delivery has ended with the exception
\* of an update on a verification row that was deleted meanwhile.
C28_Witness ==
  /\ last.op = "verifyFromWebhook"
  /\ last.outcome = "RecordNotFound"
  /\ res["c1"] = [op |-> "handleWebhook", outcome |-> "ok"]
  /\ call["c1"] = Idle

C31_RefreshTokenAndInactiveStable ==
  [][/\ \A s \in sessions :
          \E t \in sessions' :
            /\ t.id = s.id
            /\ t.refreshToken = s.refreshToken
            /\ (~s.isActive => ~t.isActive)
     /\ \A p \in Callers :
          (/\ call[p].pc = "update"
           /\ call'[p] = Idle
           /\ \E s \in sessions : s.id = call[p].session.id /\ ~s.isActive)
          => \E t \in sessions' :
               /\ t.id = call[p].session.id
               /\ t.accessToken = call[p].newAccessToken
               /\ ~t.isActive]_vars

\* A refresh read the session while it was active, an invalidation then
\* deactivated it, and the refresh has written its new access token and
\* returned: the session holds the new access token and is inactive.
C31_Witness ==
  /\ last.op = "refreshAccessToken"
  /\ last.outcome = "ok"
  /\ \E s \in sessions :
       /\ s.accessToken = last.accessToken
       /\ s.refreshToken = last.refreshToken
       /\ ~s.isActive

\* C32: validateAndConsumeState fails with Unauthorized, without a lookup in
\* the state store and without changing it, for every token that is not
\* exactly two '.'-separated parts or whose signature part is not the HMAC of
\* its token part (a signature part of the wrong length included).
C32_BadTokenUnauthorized ==
  [][\A p \in Callers :
       (/\ call[p] = Idle
        /\ res'[p] # res[p]
        /\ res'[p].op = "validateAndConsumeState"
        /\ \/ Len(res'[p].token) # 2
           \/ res'[p].token[2] # Hmac(res'[p].token[1]))
       => /\ res'[p].outcome = "Unauthorized"
          /\ call'[p] = Idle
          /\ oauthStates' = oauthStates]_vars

\* C33: validateAndConsumeState for a stored, correctly signed state whose
\* expiresAt (10 minutes after generation) has passed deletes the row and
\* fails with Unauthorized, never returning the payload; every later call
\* with the same token fails as well.
C33_ExpiredStateRejected ==
  [][\A p \in Callers :
       /\ (/\ call[p] = Idle
           /\ res'[p] # res[p]
           /\ res'[p].op = "validateAndConsumeState"
           /\ \E m \in minted :
                /\ m.stateToken = res'[p].token
                /\ now > m.expiresAt)
            => \/ /\ call'[p].pc = "expired"
                  /\ call'[p].rec \in oauthStates
               \/ /\ call'[p] = Idle
                  /\ res'[p].outcome = "Unauthorized"
                  /\ findByToken(res'[p].token) = {}
       /\ (call[p].pc = "expired" /\ call'[p] = Idle)
            => /\ res'[p].outcome = "Unauthorized"
               /\ \A r \in oauthStates' : r.id # call[p].rec.id
               /\ returned' = returned]_vars

\* C34: after any sequence of successful handleCallback calls no two
\* OAuthProvider links have the same (provider, providerId): a successful
\* callback whose profile matches a link updates that link's access token
\* and email and leaves the number of links as it was, and otherwise adds
\* exactly one link, for the resolved user; no other link changes.
C34_OneLinkPerIdentity ==
  [][(last'.op = "handleCallback" /\ last'.outcome = "ok") =>
       \E profile \in OAuthProfiles(last'.provider) :
         LET samePair(l) == l.provider = profile.provider
                            /\ l.providerId = profile.providerId
             accessToken == <<"access", last'.state.id>>
         IN
         /\ profile.email = last'.email
         /\ \A l \in oauthLinks : ~samePair(l) => l \in oauthLinks'
         /\ Cardinality({l \in oauthLinks' : samePair(l)}) = 1
         /\ \A l \in oauthLinks' :
              samePair(l) => l.email = profile.email /\ l.accessToken = accessToken
         /\ IF \E l \in oauthLinks : samePair(l)
            THEN Cardinality(oauthLinks') = Cardinality(oauthLinks)
            ELSE /\ Cardinality(oauthLinks') = Cardinality(oauthLinks) + 1
                 /\ \A l \in oauthLinks' : samePair(l) => l.userId = last'.userId
         /\ \A l, k \in oauthLinks' :
              (l.provider = k.provider /\ l.providerId = k.providerId) => l = k]_vars

\* A successful callback for the Google identity that was already linked:
\* still one link, now with the email of the profile and the access token of
\* this round trip.
C34_Witness ==
  /\ last.op = "handleCallback"
  /\ last.outcome = "ok"
  /\ last.provider = ExistingLink.provider
  /\ <<"sub", last.email>> = ExistingLink.providerId
  /\ Cardinality(oauthLinks) = 1
  /\ \E l \in oauthLinks :
       /\ l.providerId = ExistingLink.providerId
       /\ l.email = last.email
       /\ l.email # ExistingLink.email
       /\ l.accessToken = <<"access", last.state.id>>

\* C39: the upsert never changes the owner of an existing link: when
\* (provider, providerId) is linked to user A and a successful handleCallback
\* resolves to another user B, the link keeps userId A, only its access
\* token and profile fields change, and no link is created for B.
C39_UpsertKeepsOwner ==
  [][/\ \A l \in oauthLinks :
          \E k \in oauthLinks' :
            /\ k.provider = l.provider
            /\ k.providerId = l.providerId
            /\ k.userId = l.userId
     /\ (last'.op = "handleCallback" /\ last'.outcome = "ok") =>
          \A l \in oauthLinks :
            (/\ l.provider = last'.provider
             /\ l.providerId = <<"sub", last'.email>>
             /\ l.userId # last'.userId)
            => /\ oauthLinks' =
                    (oauthLinks \ {l}) \cup
                      {[l EXCEPT !.email = last'.email,
                                 !.accessToken = <<"access", last'.state.id>>]}
               /\ \A k \in oauthLinks' :
                    k.userId = last'.userId => k \in oauthLinks]_vars

\* The link flow of the completed user ended in a successful callback for the
\* Google identity linked to the other user: the link still belongs to that
\* user, carries the new access token, and the completed user has no link.
C39_Witness ==
  /\ last.op = "handleCallback"
  /\ last.outcome = "ok"
  /\ last.state.userId = CompletedUser.id
  /\ last.userId = CompletedUser.id
  /\ \E l \in oauthLinks :
       /\ l.provider = last.provider
       /\ l.providerId = <<"sub", last.email>>
       /\ l.userId = ExistingLink.userId
       /\ l.accessToken = <<"access", last.state.id>>
  /\ \A l \in oauthLinks : l.userId # CompletedUser.id

\* C38: a handleCallback that gets past the validation of its state token
\* has deleted the state row, whether it then succeeds or fails (provider
\* mismatch, exchange or profile failure, Conflict); every later
\* handleCallback with that token, for the right provider too, fails with
\* Unauthorized and changes nothing.
C38_FailedCallbackSpendsState ==
  [][last'.op = "handleCallback" =>
       /\ last'.state.id # 0 =>
            /\ last'.state \in oauthStates
            /\ last'.state \notin oauthStates'
            /\ \A r \in oauthStates' : r.stateToken # last'.state.stateToken
       /\ (\E m \in minted :
             /\ m.stateToken = last'.state.stateToken
             /\ m \notin oauthStates)
            => /\ last'.outcome = "Unauthorized"
               /\ last'.state.id = 0
               /\ ~last'.exchanged
               /\ users' = users
               /\ oauthLinks' = oauthLinks
               /\ oauthStates' = oauthStates]_vars

\* The state was consumed before it expired by a callback that failed (no
\* user and no link was created); a callback for the provider the state was
\* generated for has presented it again, still before its expiry, and was
\* rejected.
C38_Witness ==
  /\ last.op = "handleCallback"
  /\ last.outcome = "Unauthorized"
  /\ last.state.id = 0
  /\ oauthLinks = {}
  /\ users = {CompletedUser}
  /\ \E m \in minted :
       /\ m.stateToken = last.state.stateToken
       /\ m \notin oauthStates
       /\ m.provider = last.provider
       /\ ~(now > m.expiresAt)

\* C40: invalidateSession(accessToken) deactivates a session only if
\* accessToken is the access token stored on it at that moment: with an
\* access token that a refreshAccessToken has replaced it changes nothing
\* and the session stays active; validateAccessToken succeeds only with the
\* access token an active session stores, never with a replaced one.
C40_SupersededAccessToken ==
  [][/\ last'.op = "invalidateSession" =>
          /\ \A s \in sessions :
               s.accessToken # last'.token => s \in sessions'
          /\ \A s \in sessions :
               s.accessToken = last'.token =>
                 [s EXCEPT !.isActive = FALSE] \in sessions'
          /\ Cardinality(sessions') = Cardinality(sessions)
     /\ (last'.op = "validateAccessToken" /\ last'.outcome = "ok") =>
          \E s \in sessions :
            /\ s.accessToken = last'.token
            /\ s.isActive
     /\ \A s \in sessions :
          (/\ last'.op \in {"invalidateSession", "validateAccessToken"}
           /\ last'.token = generateAccessToken(s.userId, s.id)
           /\ s.accessToken # last'.token)
          => /\ sessions' = sessions
             /\ last'.op = "validateAccessToken" => last'.outcome = "Unauthorized"]_vars

\* invalidateSession has just been called with the access token the session
\* was created with, after a refresh replaced it: the session is active and
\* stores the later access token.
C40_Witness ==
  /\ last.op = "invalidateSession"
  /\ \E s \in sessions :
       /\ last.token = generateAccessToken(s.userId, s.id)
       /\ s.accessToken.n > last.token.n
       /\ s.isActive
  /\ \A s \in sessions : s.accessToken # last.token

\* C35: when resendVerification(userId) succeeds for a user whose phone is
\* unverified, the row that was the user's latest unverified verification
\* is gone, the verification returned is a row created by this call, and a
\* verifyFromWebhook that then looks up a token no row holds (the previous
\* token) returns false and writes nothing.
C35_ResendReplacesVerification ==
  [][/\ (last'.op = "resendVerification" /\ last'.outcome = "ok") =>
          \A prev \in mobileVerifs :
            (/\ prev.userId = last'.userId
             /\ ~prev.isVerified
             /\ \A w \in mobileVerifs :
                  (w.userId = prev.userId /\ ~w.isVerified) => w.id <= prev.id)
            => /\ \A v \in mobileVerifs' :
                    v.id # prev.id /\ v.qrVerificationId # prev.qrVerificationId
               /\ last'.created
               /\ last'.verificationToken # prev.qrVerificationId
               /\ \E v \in mobileVerifs' \ mobileVerifs :
                    /\ v.id = last'.verificationId
                    /\ v.qrVerificationId = last'.verificationToken
                    /\ v.userId = last'.userId
                    /\ ~v.isVerified
                    /\ v.attempts = 0
                    /\ v.expiresAt = now + verificationExpiryMinutes
     /\ \A p \in Callers :
          (/\ call[p].pc = "process"
           /\ call'[p] # call[p]
           /\ extractVerificationToken(call[p].messageText) # Null
           /\ \A v \in mobileVerifs :
                v.qrVerificationId # extractVerificationToken(call[p].messageText))
          => /\ last'.op = "verifyFromWebhook"
             /\ last'.outcome = "false"
             /\ call'[p] = Idle
             /\ mobileVerifs' = mobileVerifs
             /\ users' = users]_vars

\* The first verification was replaced by resendVerification; a message
\* carrying its token has been processed and verifyFromWebhook returned
\* false (the one stored row, created by the resend, is pending and has
\* another token, which would have been accepted).
C35_Witness ==
  /\ last.op = "verifyFromWebhook"
  /\ last.outcome = "false"
  /\ issued.mobiles = 2
  /\ \A v \in mobileVerifs : v.qrVerificationId # generateVerificationToken(1)
  /\ \E v \in mobileVerifs :
       /\ v.qrVerificationId = generateVerificationToken(2)
       /\ ~v.isVerified
       /\ v.attempts < maxAttempts
       /\ ~(v.expiresAt < now)

\* C36: when the email delivery collaborator fails during sendVerificationOtp,
\* the call that triggered it (register on its create and resume paths,
\* resendOtp) fails with an error and does not report success; the OTP row
\* stored before the email was attempted stays.
C36_DeliveryFailureSurfaces ==
  [][(/\ last'.op \in {"register", "resendOtp"}
      /\ "mailOk" \in DOMAIN last'
      /\ ~last'.mailOk)
     => /\ last'.outcome = "EmailDeliveryError"
        /\ "view" \notin DOMAIN last'
        /\ \E v \in emailVerifs' :
             v.createdAt = now /\ ~v.isVerified /\ v.attempts = 0]_vars

\* register created a user and stored the OTP row, the email could not be
\* sent, and the call failed.
C36_Witness ==
  /\ last.op = "register"
  /\ last.path = "create"
  /\ ~last.mailOk
  /\ last.outcome = "EmailDeliveryError"
  /\ \E u \in users, v \in emailVerifs :
       u.email = last.email /\ v.userId = u.id /\ ~u.emailVerified

\* C37: under any interleaving of concurrent verifyOtp calls for one user, the
\* attempts counter of an EmailVerification row never exceeds 3, and no more
\* than 3 wrong OTP guesses are compared against one row: the guesses counted
\* on the row together with those compared and not yet counted stay within 3
C37_AttemptsBounded ==
  \A v \in emailVerifs :
    /\ v.attempts <= MAX_ATTEMPTS
    /\ v.attempts
         + Cardinality({p \in Callers :
                          /\ call[p].pc = "increment"
                          /\ call[p].verification.id = v.id})
         <= MAX_ATTEMPTS
====
